---------------------------- MODULE Spec2Model ----------------------------
(***************************************************************************)
(* A model of the compiler core of the repository: the type inference     *)
(* engine (edb/edgeql/compiler/inference/types.py), the schema-delta to   *)
(* backend-DDL translator (edb/pgsql/delta.py) and the backend error      *)
(* translator (edb/server/compiler/errormech.py).                         *)
(*                                                                         *)
(* Each subsystem has its own variables, its own initial predicate and    *)
(* its own next-state relation; a specification of one subsystem leaves   *)
(* the variables of the others at their idle values.                      *)
(***************************************************************************)
EXTENDS Integers, Sequences, FiniteSets, TLC

VARIABLES
    \* ---- type inference: context.Environment and the last call made
    set_types,        \* env.set_types: Set node -> type (NoneT: not assigned)
    inferred_types,   \* env.inferred_types: memo, node -> type (NoneT: absent)
    path_id,          \* EmptySet node -> [module, target] of its PathId
    ic_call,          \* the last inference call: [fn, args, pre, ret, err]
    \* ---- AlterScalarType on an enum scalar
    en_old,           \* enum values in the original schema
    en_new,           \* enum values after the rebase subcommand
    en_rebase,        \* the command has a RebaseScalarType subcommand
    en_constr,        \* the command has a CreateConstraint subcommand
    en_refs,          \* property -> how it refers to the scalar
    en_index,         \* an index expression refers to the scalar
    en_target,        \* property -> its current target in the schema
    en_problematic,   \* self.problematic_refs (NoRefs: None)
    en_pgops,         \* self.pgops of the AlterScalarType command
    en_pc,            \* position in AlterObject.apply
    \* ---- backend error translation
    er_fields,        \* the backend error's fields (C, M, D, s, t, c, n)
    er_result,        \* the last value returned by a pass (NoResult: none)
    er_pc,            \* "static", "schema" (second pass due) or "done"
    \* ---- one MetaCommand and its operation buffer
    cm_ops,           \* its subcommands in the order they were added
    cm_lookahead,     \* it applies its subcommands early (AlterScalarType)
    cm_pgops,         \* self.pgops
    cm_block,         \* what generate() has written
    cm_pc,            \* position in Command.apply
    \* ---- object-type commands of a delta and the inheritance views
    vw_exists,        \* object types in the schema
    vw_ptrs,          \* type -> pointer -> "none", "single" or "multi"
    vw_cur,           \* the object-type command being applied
    vw_updates,       \* its inhview_updates
    vw_ops,           \* backend operations generated so far
    vw_n,             \* [cmds, ptrs]: commands and pointer commands so far
    \* ---- links, DELETE triggers and the deltas that maintain them
    tr_links,         \* link -> its target, policy and storage, or NoLink
    tr_base,          \* the base of the object type C, "" for none
    tr_link_ops,      \* UpdateEndpointDeleteActions.link_ops
    tr_changed_targets, \* UpdateEndpointDeleteActions.changed_targets
    tr_db,            \* triggers and trigger functions in the backend
    tr_pgops,         \* operations emitted at the end of the last delta
    tr_n,             \* [deltas, cmds]: deltas applied, commands in this one
    \* ---- BaseCluster.start and the server it waits for
    st_port,          \* the port argument: "auto" (0) or "fixed"
    st_timeout,       \* the wait argument, in seconds
    st_clock,         \* ticks since _wait_for_server was entered
    st_left,          \* ticks the admin query may still wait
    st_ready,         \* a READY= line with a usable status was read
    st_lines,         \* other lines read from the status channel
    st_pc,            \* position in start
    st_error,         \* the exception start ended with, "" for none
    \* ---- Cluster._test_connection, the connection watchdog
    wd_timeout,       \* the timeout argument
    wd_n,             \* the loop variable n
    wd_elapsed,       \* time spent so far, in ticks of 100 ms
    wd_slept,         \* the sleeps taken so far, in ticks of 100 ms
    wd_addr,          \* self._connection_addr
    wd_pidfile,       \* what postmaster.pid holds
    wd_daemon_pid,    \* whether self._daemon_pid is set
    wd_pc,            \* position in _test_connection
    wd_result,        \* its return value, "" while running
    \* ---- inference of compound expressions
    inferred_exprs,   \* env.inferred_types of the compound nodes
    \* ---- the managed backend cluster
    cb_status,        \* the backend: "not-initialized", "stopped", "running"
    cb_spawned,       \* the processes spawned so far
    cb_last,          \* the last operation, the state before it, its result
    cb_n,             \* operations run
    \* ---- one expression box of the schema (schema/expr.py)
    bx_expr,          \* the Expression: [text, refs, _qlast, _irast]
    bx_last,          \* the last operation, the box before it, its product
    bx_n,             \* operations run
    \* ---- schema version commands and the transactions that run them
    gv_mode,          \* "schema", "global-superuser" or "global-polling"
    gv_iso,           \* isolation level of the transactions
    gv_stored,        \* the committed version
    gv_rowlock,       \* holder of the row lock on the version's row, 0 for none
    gv_objlock,       \* holder of the lock on the template database, 0 for none
    gv_txn,           \* transaction -> [status, pc, expected, snapshot, wrote]
    \* ---- one pointer command and the views of the backend it runs against
    pa_ptrs,          \* the schema before the command: type -> pointer -> storage
    pa_cmd,           \* the pointer command: its kind, source, pointer and inputs
    pa_pgops,         \* the operations the command emitted
    pa_pc,            \* how many of them the backend has run
    pa_views,         \* the inheritance views that exist in the backend
    pa_log            \* for each operation run, the views that projected its column

inferVars == <<set_types, inferred_types, path_id, ic_call>>
enumVars  == <<en_old, en_new, en_rebase, en_constr, en_refs, en_index,
               en_target, en_problematic, en_pgops, en_pc>>
errVars   == <<er_fields, er_result, er_pc>>
cmdVars   == <<cm_ops, cm_lookahead, cm_pgops, cm_block, cm_pc>>
viewVars  == <<vw_exists, vw_ptrs, vw_cur, vw_updates, vw_ops, vw_n>>
trigVars  == <<tr_links, tr_base, tr_link_ops, tr_changed_targets, tr_db,
               tr_pgops, tr_n>>
startVars == <<st_port, st_timeout, st_clock, st_left, st_ready, st_lines,
               st_pc, st_error>>
watchVars == <<wd_timeout, wd_n, wd_elapsed, wd_slept, wd_addr, wd_pidfile,
               wd_daemon_pid, wd_pc, wd_result>>
exprVars  == <<inferred_exprs>>
clusterVars == <<cb_status, cb_spawned, cb_last, cb_n>>
boxVars == <<bx_expr, bx_last, bx_n>>
verVars == <<gv_mode, gv_iso, gv_stored, gv_rowlock, gv_objlock, gv_txn>>
ptrVars == <<pa_ptrs, pa_cmd, pa_pgops, pa_pc, pa_views, pa_log>>
vars == <<inferVars, enumVars, errVars, cmdVars, viewVars, trigVars,
          startVars, watchVars, exprVars, clusterVars,
          boxVars,
          verVars,
          ptrVars>>

(* What the actions of one subsystem leave alone.                          *)
exceptInfer ==
    <<enumVars, errVars, cmdVars, viewVars, trigVars,
      startVars, watchVars, exprVars, clusterVars,
      boxVars,
      verVars,
      ptrVars>>
exceptEnum ==
    <<inferVars, errVars, cmdVars, viewVars, trigVars,
      startVars, watchVars, exprVars, clusterVars,
      boxVars,
      verVars,
      ptrVars>>
exceptErr ==
    <<inferVars, enumVars, cmdVars, viewVars, trigVars,
      startVars, watchVars, exprVars, clusterVars,
      boxVars,
      verVars,
      ptrVars>>
exceptCmd ==
    <<inferVars, enumVars, errVars, viewVars, trigVars,
      startVars, watchVars, exprVars, clusterVars,
      boxVars,
      verVars,
      ptrVars>>
exceptView ==
    <<inferVars, enumVars, errVars, cmdVars, trigVars,
      startVars, watchVars, exprVars, clusterVars,
      boxVars,
      verVars,
      ptrVars>>
exceptTrig ==
    <<inferVars, enumVars, errVars, cmdVars, viewVars,
      startVars, watchVars, exprVars, clusterVars,
      boxVars,
      verVars,
      ptrVars>>
exceptExpr ==
    <<enumVars, errVars, cmdVars, viewVars, trigVars,
      startVars, watchVars, clusterVars,
      boxVars,
      verVars,
      ptrVars>>
exceptCluster ==
    <<inferVars, enumVars, errVars, cmdVars, viewVars, trigVars,
      startVars, watchVars, exprVars,
      boxVars,
      verVars,
      ptrVars>>
exceptStart ==
    <<inferVars, enumVars, errVars, cmdVars, viewVars, trigVars,
      watchVars, exprVars, clusterVars,
      boxVars,
      verVars,
      ptrVars>>
exceptWatch ==
    <<inferVars, enumVars, errVars, cmdVars, viewVars, trigVars,
      startVars, exprVars, clusterVars,
      boxVars,
      verVars,
      ptrVars>>
exceptBox ==
    <<inferVars, enumVars, errVars, cmdVars, viewVars, trigVars, startVars, watchVars, exprVars, clusterVars,
      verVars,
      ptrVars>>
exceptVer ==
    <<inferVars, enumVars, errVars, cmdVars, viewVars, trigVars, startVars, watchVars, exprVars, clusterVars, boxVars,
      ptrVars>>
exceptPtr ==
    <<inferVars, enumVars, errVars, cmdVars, viewVars, trigVars, startVars, watchVars, exprVars, clusterVars, boxVars, verVars>>

-----------------------------------------------------------------------------
(* Generic helpers                                                         *)

Range(s) == {s[i] : i \in DOMAIN s}

SeqsUpTo(S, n) == UNION {[1..k -> S] : k \in 0..n}

IsInjective(s) == \A i, j \in DOMAIN s : s[i] = s[j] => i = j

RECURSIVE Concat(_)
Concat(ss) == IF ss = <<>> THEN <<>> ELSE Head(ss) \o Concat(Tail(ss))

(* ordered.OrderedSet kept as a sequence without repetitions.              *)
OrderedAdd(s, x) == IF x \in Range(s) THEN s ELSE Append(s, x)

RECURSIVE OrderedUpdate(_, _)
OrderedUpdate(s, xs) ==
    IF xs = <<>> THEN s
    ELSE OrderedUpdate(OrderedAdd(s, Head(xs)), Tail(xs))

-----------------------------------------------------------------------------
(* Bounds                                                                  *)

MaxArgs == 2


MaxCalls == 2

-----------------------------------------------------------------------------
(***************************************************************************)
(* TYPE INFERENCE  (edb/edgeql/compiler/inference/types.py)                *)
(***************************************************************************)

(* Schema types.  k is the Python class the isinstance tests look at.     *)
NoneT      == [k |-> "none",   n |-> ""]
Scalar(n)  == [k |-> "scalar", n |-> n]
ObjectT(n) == [k |-> "object", n |-> n]
ArrayT(n)  == [k |-> "array",  n |-> n]

ScalarNames == {"int32", "int64", "str"}
ObjectNames == {"Object", "ObjX", "ObjY"}

SchemaTypes ==
    {Scalar(n) : n \in ScalarNames} \cup {ObjectT(n) : n \in ObjectNames}
        \cup {ArrayT(n) : n \in ScalarNames}

(* IR nodes of the query being compiled.  e1, e2 are irast.EmptySet; s_x, *)
(* s_y are irast.Set over object types; c_* are constants/parameters whose *)
(* type is read from their typeref.                                        *)
EmptySets == {"e1", "e2"}
SetNodes  == EmptySets \cup {"s_x", "s_y"}
Nodes     == SetNodes \cup {"c_i32", "c_i64", "c_str"}

IsEmptySet(ir) == ir \in EmptySets

ir_typeref_to_type(ir) ==
    CASE ir = "c_i32" -> Scalar("int32")
      [] ir = "c_i64" -> Scalar("int64")
      [] ir = "c_str" -> Scalar("str")
      [] ir = "c_bytes" -> Scalar("bytes")
      [] ir = "c_json" -> Scalar("json")
      [] ir = "c_arr" -> ArrayT("int32")
      [] ir = "c_arr_str" -> ArrayT("str")
      [] ir = "c_anyscalar" -> Scalar("anyscalar")
      [] ir = "c_any" -> [k |-> "pseudo", n |-> "anytype"]
      [] OTHER        -> NoneT

(* Implicit casts between scalars: int32 -> int64 only.                    *)
implicitly_castable_to(a, b) ==
    \/ a = b
    \/ a = Scalar("int32") /\ b = Scalar("int64")

find_common_implicitly_castable_type(a, b) ==
    IF a.k = "scalar" /\ b.k = "scalar" THEN
        IF implicitly_castable_to(a, b) THEN b
        ELSE IF implicitly_castable_to(b, a) THEN a
        ELSE NoneT
    ELSE IF a.k = "array" /\ b.k = "array" THEN
        IF implicitly_castable_to(Scalar(a.n), Scalar(b.n)) THEN b
        ELSE IF implicitly_castable_to(Scalar(b.n), Scalar(a.n)) THEN a
        ELSE NoneT
    ELSE NoneT

(* Inheritance of the object types: ObjX and ObjY extend Object.           *)
ObjAncestors(n) == {n, "Object"}

get_class_nearest_common_ancestors(types) ==
    LET names  == {types[i].n : i \in DOMAIN types}
        shared == {a \in ObjectNames : \A n \in names : a \in ObjAncestors(n)}
        nearest == {a \in shared :
                       \A b \in shared : a \in ObjAncestors(b) => a = b}
    IN  IF \E i \in DOMAIN types : types[i].k # "object" THEN <<>>
        ELSE IF "ObjX" \in nearest THEN <<ObjectT("ObjX")>>
        ELSE IF "ObjY" \in nearest THEN <<ObjectT("ObjY")>>
        ELSE IF "Object" \in nearest THEN <<ObjectT("Object")>>
        ELSE <<>>

(* A faulty amend_empty_set_type that re-derives the path id only.         *)
amend_empty_set_type_keeps_set_types(es, t, env) ==
    [env EXCEPT !.path_id[es] = [module |-> "__derived__", target |-> t]]

(* amend_empty_set_type: record the type and re-derive the path id.        *)
amend_empty_set_type(es, t, env) ==
    [env EXCEPT !.set_types[es] = t,
                !.path_id[es] = [module |-> "__derived__", target |-> t]]

(* _infer_type: the single-dispatch rule table (the rules for Set and for  *)
(* nodes typed by their typeref).                                          *)
infer_type_rule(ir, env) ==
    IF ir \in SetNodes THEN env.set_types[ir] ELSE ir_typeref_to_type(ir)

(* infer_type: memoised front end.  Returns [ret, err, env].               *)
infer_type(ir, env) ==
    IF env.inferred_types[ir] # NoneT
    THEN [ret |-> env.inferred_types[ir], err |-> "", env |-> env]
    ELSE LET result == infer_type_rule(ir, env) IN
         IF result = NoneT
         THEN [ret |-> NoneT, err |-> "could not determine expression type",
               env |-> env]
         ELSE [ret |-> result, err |-> "",
               env |-> [env EXCEPT !.inferred_types[ir] = result]]

(* The first loop of _infer_common_type: classify every argument.          *)
RECURSIVE ict_scan(_, _, _)
ict_scan(irs, i, acc) ==
    IF i > Len(irs) \/ acc.err # "" THEN acc
    ELSE LET arg == irs[i] IN
         IF IsEmptySet(arg) /\ acc.env.set_types[arg] = NoneT
         THEN ict_scan(irs, i + 1, [acc EXCEPT !.empties = Append(@, i)])
         ELSE LET r == infer_type(arg, acc.env) IN
              IF r.err # "" THEN [acc EXCEPT !.err = r.err]
              ELSE ict_scan(irs, i + 1,
                     [acc EXCEPT
                        !.env = r.env,
                        !.types = Append(@, r.ret),
                        !.seen_coll = @ \/ r.ret.k = "array",
                        !.seen_scalar = @ \/ r.ret.k = "scalar",
                        !.seen_object = @ \/ r.ret.k \notin {"array", "scalar"}])

(* A faulty fold that stops at the first type.                             *)
ict_fold_first(types, i, common) == common

(* The pairwise fold over scalar or collection types.                      *)
RECURSIVE ict_fold(_, _, _)
ict_fold(types, i, common) ==
    IF i > Len(types) \/ common = NoneT THEN common
    ELSE ict_fold(types, i + 1,
                  find_common_implicitly_castable_type(common, types[i]))

RECURSIVE ict_amend(_, _, _, _, _)
ict_amend(irs, empties, j, t, env) ==
    IF j > Len(empties) THEN env
    ELSE ict_amend(irs, empties, j + 1, t,
                   amend_empty_set_type(irs[empties[j]], t, env))

(* A faulty count of the partitions seen, which never exceeds one.         *)
B2N_first_only(b) == IF b THEN 1 - 1 ELSE 0

B2N(b) == IF b THEN 1 ELSE 0

(* _infer_common_type.  Returns [ret, err, env]; ret = NoneT with err = "" *)
(* is the Python None result.                                              *)
infer_common_type(irs, env) ==
    IF irs = <<>>
    THEN [ret |-> NoneT, err |-> "IndexError", env |-> env]
    ELSE
    LET s == ict_scan(irs, 1,
                 [env |-> env, types |-> <<>>, empties |-> <<>>,
                  seen_coll |-> FALSE, seen_scalar |-> FALSE,
                  seen_object |-> FALSE, err |-> ""])
    IN
    IF s.err # "" THEN [ret |-> NoneT, err |-> s.err, env |-> s.env]
    ELSE IF B2N(s.seen_coll) + B2N(s.seen_scalar) + B2N(s.seen_object) > 1
    THEN [ret |-> NoneT, err |-> "cannot determine common type",
          env |-> s.env]
    ELSE IF s.types = <<>>
    THEN [ret |-> NoneT,
          err |-> "cannot determine common type of an empty set",
          env |-> s.env]
    ELSE
    LET common_type ==
            IF s.seen_scalar \/ s.seen_coll
            THEN ict_fold(s.types, 2, s.types[1])
            ELSE LET common_types ==
                         get_class_nearest_common_ancestors(s.types)
                 IN  IF common_types # <<>> THEN common_types[1] ELSE NoneT
    IN
    IF common_type = NoneT
    THEN [ret |-> NoneT, err |-> "", env |-> s.env]
    ELSE [ret |-> common_type, err |-> "",
          env |-> ict_amend(irs, s.empties, 1, common_type, s.env)]

-----------------------------------------------------------------------------
(* The inference environment as a state machine                            *)

Env == [set_types |-> set_types, inferred_types |-> inferred_types,
        path_id |-> path_id]

NoCall == [fn |-> "none", args |-> <<>>, pre |-> [n \in SetNodes |-> NoneT],
           ret |-> NoneT, err |-> "", n |-> 0]

InferIdle ==
    /\ set_types = [n \in SetNodes |-> NoneT]
    /\ inferred_types = [n \in Nodes |-> NoneT]
    /\ path_id = [n \in EmptySets |-> [module |-> "", target |-> NoneT]]
    /\ ic_call = NoCall

(* A fresh Environment: object sets carry their type, empty sets none.     *)
InitInfer ==
    /\ set_types = [n \in SetNodes |->
                      CASE n = "s_x" -> ObjectT("ObjX")
                        [] n = "s_y" -> ObjectT("ObjY")
                        [] OTHER     -> NoneT]
    /\ inferred_types = [n \in Nodes |-> NoneT]
    /\ path_id = [n \in EmptySets |-> [module |-> "default", target |-> NoneT]]
    /\ ic_call = NoCall

SetEnv(env) ==
    /\ set_types' = env.set_types
    /\ inferred_types' = env.inferred_types
    /\ path_id' = env.path_id

CallInferCommonType ==
    /\ ic_call.n < MaxCalls
    /\ \E irs \in SeqsUpTo(Nodes, MaxArgs) :
          LET r == infer_common_type(irs, Env) IN
          /\ SetEnv(r.env)
          /\ ic_call' = [fn |-> "common", args |-> irs, pre |-> set_types,
                         ret |-> r.ret, err |-> r.err, n |-> ic_call.n + 1]

CallInferType ==
    /\ ic_call.n < MaxCalls
    /\ \E ir \in Nodes :
          LET r == infer_type(ir, Env) IN
          /\ SetEnv(r.env)
          /\ ic_call' = [fn |-> "infer", args |-> <<ir>>, pre |-> set_types,
                         ret |-> r.ret, err |-> r.err, n |-> ic_call.n + 1]


-----------------------------------------------------------------------------
(* Inference of slices, index indirections and type checks                 *)

MaxExprCalls == 2

PseudoT(n) == [k |-> "pseudo", n |-> n]

(* The leaves of the expressions: the nodes above and constants of the     *)
(* other types the rules look at.                                          *)
ExprLeaves ==
    Nodes \cup {"c_bytes", "c_json", "c_arr", "c_arr_str", "c_anyscalar",
                "c_any"}

(* Compound IR nodes; "none" stands for an absent slice bound.             *)
Node(kind, a, b, c) == [kind |-> kind, a |-> a, b |-> b, c |-> c]
SliceIndirection(expr, start, stop) ==
    Node("SliceIndirection", expr, start, stop)
IndexIndirection(expr, index) == Node("IndexIndirection", expr, index, "none")
TypeCheckOp(left, right) == Node("TypeCheckOp", left, right, "none")

str_t == Scalar("str")
int_t == Scalar("int64")
json_t == Scalar("json")
bytes_t == Scalar("bytes")
bool_t == Scalar("bool")

Ok(t, env) == [ret |-> t, err |-> "", env |-> env]
Raise(err, env) == [ret |-> NoneT, err |-> err, env |-> env]

(* A faulty _infer_binop_args that amends an empty left operand only.      *)
infer_binop_args_left_only(left, right, env) ==
    LET l == IF IsEmptySet(left) THEN Ok(NoneT, env)
             ELSE infer_type(left, env)
        r == IF IsEmptySet(right) THEN Ok(NoneT, l.env)
             ELSE infer_type(right, l.env)
    IN  IF l.err # "" THEN l
        ELSE IF r.err # "" THEN r
        ELSE IF r.ret # NoneT
        THEN Ok(r.ret, IF IsEmptySet(left)
                       THEN amend_empty_set_type(left, r.ret, r.env)
                       ELSE r.env)
        ELSE IF l.ret # NoneT
        THEN Ok(l.ret, r.env)
        ELSE Raise("cannot determine the type of an empty set", r.env)

(* _infer_binop_args; ret is the type both operands get.                   *)
infer_binop_args(left, right, env) ==
    LET l == IF IsEmptySet(left) THEN Ok(NoneT, env)
             ELSE infer_type(left, env)
        r == IF IsEmptySet(right) THEN Ok(NoneT, l.env)
             ELSE infer_type(right, l.env)
    IN  IF l.err # "" THEN l
        ELSE IF r.err # "" THEN r
        ELSE IF r.ret # NoneT
        THEN Ok(r.ret, IF IsEmptySet(left)
                       THEN amend_empty_set_type(left, r.ret, r.env)
                       ELSE r.env)
        ELSE IF l.ret # NoneT
        THEN Ok(l.ret, IF IsEmptySet(right)
                       THEN amend_empty_set_type(right, l.ret, r.env)
                       ELSE r.env)
        ELSE Raise("cannot determine the type of an empty set", r.env)

(* A faulty __infer_typecheckop that returns the type of its operands.     *)
infer_typecheckop_operand_type(ir, env) ==
    infer_binop_args(ir.a, ir.b, env)

(* __infer_typecheckop                                                     *)
infer_typecheckop(ir, env) ==
    LET r == infer_binop_args(ir.a, ir.b, env)
    IN  IF r.err # "" THEN r ELSE Ok(bool_t, r.env)

(* The loop of __infer_slice over [ir.start, ir.stop].                     *)
RECURSIVE slice_indexes(_, _, _)
slice_indexes(indexes, node_type, env) ==
    IF indexes = <<>> THEN Ok(node_type, env)
    ELSE IF Head(indexes) = "none"
    THEN slice_indexes(Tail(indexes), node_type, env)
    ELSE LET i == infer_type(Head(indexes), env)
         IN  IF i.err # "" THEN i
             ELSE IF ~implicitly_castable_to(i.ret, int_t)
             THEN Raise("cannot slice", i.env)
             ELSE slice_indexes(Tail(indexes), node_type, i.env)

(* __infer_slice                                                           *)
infer_slice(ir, env) ==
    LET node == infer_type(ir.a, env)
    IN  IF node.err # "" THEN node
        ELSE IF \/ node.ret \in {str_t, json_t, bytes_t}
                \/ node.ret.k = "array"
                \/ node.ret = PseudoT("anytype")
        THEN slice_indexes(<<ir.b, ir.c>>, node.ret, node.env)
        ELSE Raise("cannot be sliced", node.env)

(* A faulty __infer_index that accepts a string index on bytes.            *)
infer_index_bytes_by_str(ir, env) ==
    LET node == infer_type(ir.a, env)
        index == infer_type(ir.b, node.env)
    IN  IF node.err # "" THEN node
        ELSE IF index.err # "" THEN index
        ELSE IF node.ret = bytes_t /\ index.ret = str_t
        THEN Ok(bytes_t, index.env)
        ELSE Raise("cannot index", index.env)

(* __infer_index                                                           *)
infer_index(ir, env) ==
    LET node == infer_type(ir.a, env)
        index == infer_type(ir.b, node.env)
        by_int == implicitly_castable_to(index.ret, int_t)
        by_str == implicitly_castable_to(index.ret, str_t)
    IN  IF node.err # "" THEN node
        ELSE IF index.err # "" THEN index
        ELSE IF node.ret = str_t
        THEN IF by_int THEN Ok(str_t, index.env)
             ELSE Raise("cannot index string", index.env)
        ELSE IF node.ret = bytes_t
        THEN IF by_int THEN Ok(bytes_t, index.env)
             ELSE Raise("cannot index bytes", index.env)
        ELSE IF node.ret = json_t
        THEN IF by_int \/ by_str THEN Ok(json_t, index.env)
             ELSE Raise("cannot index json", index.env)
        ELSE IF node.ret.k = "array"
        THEN IF by_int THEN Ok(Scalar(node.ret.n), index.env)
             ELSE Raise("cannot index array", index.env)
        ELSE IF \/ node.ret = PseudoT("anytype")
                \/ (node.ret = Scalar("anyscalar") /\ (by_int \/ by_str))
        THEN Ok(PseudoT("anytype"), index.env)
        ELSE Raise("index indirection cannot be applied", index.env)

(* _infer_type for the compound nodes.                                     *)
infer_expr_rule(ir, env) ==
    CASE ir.kind = "SliceIndirection" -> infer_slice(ir, env)
      [] ir.kind = "IndexIndirection" -> infer_index(ir, env)
      [] OTHER -> infer_typecheckop(ir, env)

(* A faulty infer_type that never records its result.                      *)
infer_type_expr_unrecorded(ir, env, memo) ==
    LET r == infer_expr_rule(ir, env)
    IN  [ret |-> r.ret, err |-> r.err, env |-> r.env, memo |-> memo]

(* infer_type on a compound node; memo is env.inferred_types restricted to *)
(* the compound nodes.  Returns [ret, err, env, memo].                     *)
infer_type_expr(ir, env, memo) ==
    IF \E e \in memo : e.node = ir
    THEN [ret |-> (CHOOSE e \in memo : e.node = ir).type, err |-> "",
          env |-> env, memo |-> memo]
    ELSE LET r == infer_expr_rule(ir, env)
         IN  [ret |-> r.ret, err |-> r.err, env |-> r.env,
              memo |-> IF r.err = ""
                       THEN memo \cup {[node |-> ir, type |-> r.ret]}
                       ELSE memo]

ExprIdle == inferred_exprs = {}

(* A fresh Environment over the leaves: the object sets carry their type,  *)
(* the empty sets none.                                                    *)
FreshEnv ==
    [set_types |-> [n \in SetNodes |->
                      CASE n = "s_x" -> ObjectT("ObjX")
                        [] n = "s_y" -> ObjectT("ObjY")
                        [] OTHER     -> NoneT],
     inferred_types |-> [n \in ExprLeaves |-> NoneT],
     path_id |-> [n \in EmptySets |->
                    [module |-> "default", target |-> NoneT]]]

InitExpr ==
    /\ set_types = FreshEnv.set_types
    /\ inferred_types = FreshEnv.inferred_types
    /\ path_id = FreshEnv.path_id
    /\ ic_call = NoCall
    /\ inferred_exprs = {}

(* The expressions of the queries being compiled.                          *)
IndexOperands ==
    {"c_str", "c_bytes", "c_json", "c_arr", "c_anyscalar", "c_any", "c_i64"}
IndexNodes ==
    {IndexIndirection(a, b) : a \in IndexOperands,
                              b \in {"c_i64", "c_str", "e1"}}
SliceNodes ==
    {SliceIndirection(a, b, c) : a \in {"c_arr", "c_i64"},
                                 b \in {"none", "e1", "c_i64"},
                                 c \in {"none", "c_i64"}}
(* TypeCheckOp.left is a Set, TypeCheckOp.right a TypeRef.                 *)
TypeCheckNodes ==
    {TypeCheckOp(a, b) : a \in {"e1", "e2", "s_x", "c_i64"},
                         b \in {"c_i64", "c_str"}}
BinopOperands == {"e1", "e2", "s_x", "c_i64"}
ExprNodes == IndexNodes \cup SliceNodes \cup TypeCheckNodes
ExprLeafCalls == {"e1", "e2", "s_x", "c_i64", "c_arr"}
DistinctArgs(leaves) ==
    {irs \in SeqsUpTo(leaves, Cardinality(leaves)) :
        irs # <<>> /\ IsInjective(irs)}
CommonArgs ==
    DistinctArgs({"e1", "c_i64", "s_x"})
        \cup DistinctArgs({"e1", "c_i32", "c_str"})
        \cup DistinctArgs({"e1", "c_arr", "c_arr_str"})

ExprCall(fn, args, r) ==
    [fn |-> fn, args |-> args, pre |-> set_types, known |-> inferred_types,
     ret |-> r.ret, err |-> r.err, n |-> ic_call.n + 1]

(* infer_type(ir, env) on a compound node.                                 *)
ExCallInferExpr ==
    /\ ic_call.n < MaxExprCalls
    /\ \E ir \in ExprNodes :
          LET r == infer_type_expr(ir, Env, inferred_exprs) IN
          /\ SetEnv(r.env)
          /\ inferred_exprs' = r.memo
          /\ ic_call' = ExprCall("expr", <<ir>>, r)

(* infer_type(ir, env) on a leaf.                                          *)
ExCallInferLeaf ==
    /\ ic_call.n < MaxExprCalls
    /\ \E ir \in ExprLeafCalls :
          LET r == infer_type(ir, Env) IN
          /\ SetEnv(r.env)
          /\ ic_call' = ExprCall("infer", <<ir>>, r)
    /\ UNCHANGED inferred_exprs

(* _infer_binop_args(left, right, env) on two leaves.                      *)
ExCallInferBinopArgs ==
    /\ ic_call.n < MaxExprCalls
    /\ \E left \in BinopOperands, right \in BinopOperands :
          LET r == infer_binop_args(left, right, Env) IN
          /\ SetEnv(r.env)
          /\ ic_call' = ExprCall("binop", <<left, right>>, r)
    /\ UNCHANGED inferred_exprs

(* _infer_common_type(irs, env) on distinct leaves: objects and scalars,   *)
(* scalars only, or arrays only, with or without an EmptySet.              *)
ExCallInferCommonType ==
    /\ ic_call.n < MaxExprCalls
    /\ \E irs \in CommonArgs :
          LET r == infer_common_type(irs, Env) IN
          /\ SetEnv(r.env)
          /\ ic_call' = ExprCall("common", irs, r)
    /\ UNCHANGED inferred_exprs

-----------------------------------------------------------------------------
(***************************************************************************)
(* SCALAR ENUM EVOLUTION  (edb/pgsql/delta.py, AlterScalarType)            *)
(***************************************************************************)

MaxEnum == 3

EnumUniverse == <<"A", "B", "C", "D", "E">>
EnumVals == {EnumUniverse[i] : i \in 1..MaxEnum}

(* Enum value lists: no value twice.                                       *)
EnumLists == {s \in SeqsUpTo(EnumVals, MaxEnum) : IsInjective(s)}

(* The properties of the schema that may refer to the scalar: directly    *)
(* (target is the scalar), through a collection (target is array<scalar>), *)
(* or not at all.                                                          *)
EnProps == {"p1", "p2"}
RefKinds == {"none", "direct", "array"}

NoRefs == [none |-> TRUE, other |-> <<>>, props |-> <<>>]

(* A backend operation: its class, the names it acts on and, for           *)
(* CreateEnum, the value list.                                             *)
Op(o, a, b) == [op |-> o, a |-> a, b |-> b, v |-> <<>>]

CreateEnumOp(values) == [op |-> "CreateEnum", a |-> "", b |-> "", v |-> values]

Prefix(s, n) == SubSeq(s, 1, IF n < Len(s) THEN n ELSE Len(s))

(* needs_recreate, as computed in _alter_begin.                            *)
needs_recreate(old_enum_values, new_enum_values) ==
    /\ old_enum_values # new_enum_values
    /\ old_enum_values # Prefix(new_enum_values, Len(old_enum_values))

(* _get_problematic_refs: the worklist search from the scalar's referrers. *)
(* With composite_only only collection referrers are followed.  The       *)
(* result lists the properties in an arbitrary (set iteration) order,     *)
(* which the caller draws; here: the set of properties found.              *)
problematic_props(refs, composite_only) ==
    {p \in EnProps :
        \/ refs[p] = "array"
        \/ refs[p] = "direct" /\ ~composite_only}

problematic_other(has_index, composite_only) ==
    IF has_index /\ ~composite_only THEN <<"idx">> ELSE <<>>

Orderings(S) == {s \in SeqsUpTo(S, Cardinality(S)) :
                    Len(s) = Cardinality(S) /\ IsInjective(s)}

(* _undo_everything: drop the other referrers, then retarget every        *)
(* property to its replacement type (creating the replacement collection  *)
(* first when its target is a collection).                                 *)
RECURSIVE undo_props(_, _, _)
undo_props(props, refs, i) ==
    IF i > Len(props) THEN <<>>
    ELSE (IF refs[props[i]] = "array"
          THEN <<Op("CreateArray", props[i], "repl")>> ELSE <<>>)
         \o <<Op("SetPropertyTarget", props[i], "repl")>>
         \o undo_props(props, refs, i + 1)

undo_everything(other, props, refs) ==
    [j \in 1..Len(other) |-> Op("DropIndex", other[j], "")]
        \o undo_props(props, refs, 1)

(* _redo_everything: restore the targets (prerequisites), delete the      *)
(* temporary collections (caused), recreate the other referrers in        *)
(* reverse, then restore the defaults.                                     *)
redo_everything(other, props, refs) ==
    [j \in 1..Len(props) |-> Op("SetPropertyTarget", props[j], "orig")]
        \o SelectSeq([j \in 1..Len(props) |->
                         IF refs[props[j]] = "array"
                         THEN Op("DeleteArray", props[j], "repl")
                         ELSE Op("Nop", "", "")],
                     LAMBDA o : o.op # "Nop")
        \o [j \in 1..Len(other) |->
               Op("CreateIndex", other[Len(other) + 1 - j], "")]
        \o [j \in 1..Len(props) |-> Op("SetPropertyDefault", props[j], "orig")]

(* The ADD VALUE loop of _alter_begin.                                     *)
RECURSIVE add_values(_, _, _, _)
add_values(new_enum_values, i, old_enum_values, old_idx) ==
    IF i > Len(new_enum_values) THEN <<>>
    ELSE LET v == new_enum_values[i] IN
         IF old_idx >= Len(old_enum_values)
         THEN <<Op("AlterEnumAddValue", v, "")>>
              \o add_values(new_enum_values, i + 1, old_enum_values, old_idx)
         ELSE IF v # old_enum_values[old_idx + 1]
         THEN <<Op("AlterEnumAddValue", v, old_enum_values[old_idx + 1])>>
              \o add_values(new_enum_values, i + 1,
                            SubSeq(old_enum_values, 1, old_idx) \o <<v>>
                              \o SubSeq(old_enum_values, old_idx + 1,
                                        Len(old_enum_values)),
                            old_idx)
         ELSE add_values(new_enum_values, i + 1, old_enum_values, old_idx + 1)

(* The enum operations _alter_begin emits after the rewrite.               *)
enum_ops(old_enum_values, new_enum_values) ==
    IF new_enum_values = <<>> THEN <<>>
    ELSE IF needs_recreate(old_enum_values, new_enum_values)
    THEN <<Op("DropEnum", "", ""), CreateEnumOp(new_enum_values)>>
    ELSE IF old_enum_values # new_enum_values
    THEN add_values(new_enum_values, 1, old_enum_values, 0)
    ELSE <<>>


(* A faulty _get_problematic_refs that always searches from the           *)
(* collection referrers only.                                              *)
get_problematic_refs_composite_only(refs, has_index, composite_only) ==
    LET seen_props == problematic_props(refs, TRUE)
        seen_other == problematic_other(has_index, TRUE)
    IN  [none |-> seen_props = {} /\ seen_other = <<>>,
         other |-> seen_other, props |-> seen_props]

(* _get_problematic_refs: None when nothing refers to the scalar.          *)
get_problematic_refs(refs, has_index, composite_only) ==
    LET seen_props == problematic_props(refs, composite_only)
        seen_other == problematic_other(has_index, composite_only)
    IN  [none |-> seen_props = {} /\ seen_other = <<>>,
         other |-> seen_other, props |-> seen_props]

(* The subcommands of the AlterScalarType command, in declaration order.   *)
en_subcommands ==
    (IF en_rebase THEN <<Op("RebaseScalarType", "", "")>> ELSE <<>>)
        \o (IF en_constr THEN <<Op("CreateConstraint", "", "")>> ELSE <<>>)

EnumIdle ==
    /\ en_old = <<>>
    /\ en_new = <<>>
    /\ en_rebase = FALSE
    /\ en_constr = FALSE
    /\ en_refs = [p \in EnProps |-> "none"]
    /\ en_index = FALSE
    /\ en_target = [p \in EnProps |-> "orig"]
    /\ en_problematic = NoRefs
    /\ en_pgops = <<>>
    /\ en_pc = "begin"

(* An AlterScalarType command about to be applied to a schema in which    *)
(* the scalar has the values en_old.  Without a rebase the values stay.    *)
InitEnum ==
    /\ en_old \in EnumLists
    /\ en_rebase \in BOOLEAN
    /\ en_new \in EnumLists
    /\ IF en_rebase /\ en_old # <<>> THEN en_new # <<>> ELSE en_new = en_old
    /\ en_constr \in BOOLEAN
    /\ en_refs \in [EnProps -> RefKinds]
    /\ en_index \in BOOLEAN
    /\ en_target = [p \in EnProps |-> "orig"]
    /\ en_problematic = NoRefs
    /\ en_pgops = <<>>
    /\ en_pc = "begin"

enumInputs == <<en_old, en_new, en_rebase, en_constr, en_refs, en_index>>

(* AlterScalarType._alter_begin                                            *)
EnAlterBegin ==
    /\ en_pc = "begin"
    /\ LET old_enum_values == en_old
           lookahead == en_rebase /\ old_enum_values # <<>>
           new_enum_values == IF lookahead THEN en_new ELSE old_enum_values
           recreate == needs_recreate(old_enum_values, new_enum_values)
           has_create_constraint == en_constr
           found == IF recreate \/ has_create_constraint
                    THEN get_problematic_refs(en_refs, en_index, ~recreate)
                    ELSE [none |-> TRUE, other |-> <<>>, props |-> {}]
           ops0 == IF lookahead THEN en_subcommands ELSE <<>>
       IN  \E props \in Orderings(found.props) :
             /\ en_problematic' =
                    IF found.none THEN NoRefs
                    ELSE [none |-> FALSE, other |-> found.other,
                          props |-> props]
             /\ en_target' = [p \in EnProps |->
                                 IF p \in found.props THEN "repl"
                                 ELSE en_target[p]]
             /\ en_pgops' =
                    OrderedUpdate(
                        OrderedUpdate(ops0,
                            IF found.none THEN <<>>
                            ELSE undo_everything(found.other, props, en_refs)),
                        enum_ops(old_enum_values, new_enum_values))
    /\ en_pc' = "innards"
    /\ UNCHANGED enumInputs

(* AlterObject._alter_innards as extended by MetaCommand.apply_subcommands *)
EnAlterInnards ==
    /\ en_pc = "innards"
    /\ en_pgops' = OrderedUpdate(en_pgops, en_subcommands)
    /\ en_pc' = "finalize"
    /\ UNCHANGED <<enumInputs, en_target, en_problematic>>

(* AlterScalarType._alter_finalize                                         *)
EnAlterFinalize ==
    /\ en_pc = "finalize"
    /\ IF en_problematic.none
       THEN UNCHANGED <<en_pgops, en_target>>
       ELSE /\ en_pgops' =
                  OrderedUpdate(en_pgops,
                      redo_everything(en_problematic.other,
                                      en_problematic.props, en_refs))
            /\ en_target' = [p \in EnProps |-> "orig"]
    /\ en_pc' = "done"
    /\ UNCHANGED <<enumInputs, en_problematic>>

-----------------------------------------------------------------------------
(***************************************************************************)
(* BACKEND ERROR TRANSLATION  (edb/server/compiler/errormech.py)           *)
(***************************************************************************)

(* SQLSTATE codes by the names errormech.py uses.                          *)
pgerrors ==
    [NOT_NULL_VIOLATION |-> "23502", UNIQUE_VIOLATION |-> "23505",
     CHECK_VIOLATION |-> "23514",
     INVALID_TEXT_REPRESENTATION |-> "22P02",
     NUMERIC_VALUE_OUT_OF_RANGE |-> "22003",
     INVALID_DATETIME_FORMAT |-> "22007",
     DATETIME_FIELD_OVERFLOW |-> "22008",
     INVALID_PARAMETER_VALUE |-> "22023", WRONG_OBJECT_TYPE |-> "42809",
     DIVISION_BY_ZERO |-> "22012", INTERVAL_FIELD_OVERFLOW |-> "22015",
     READ_ONLY_SQL_TRANSACTION |-> "25006",
     SERIALIZATION_FAILURE |-> "40001", DEADLOCK_DETECTED |-> "40P01",
     INVALID_CATALOG_NAME |-> "3D000", OBJECT_IN_USE |-> "55006",
     DUPLICATE_DATABASE |-> "42P04", CARDINALITY_VIOLATION |-> "21000"]

(* A code none of the branches knows.                                      *)
OtherCode == "XX000"

Codes == Range(pgerrors) \cup {OtherCode}

(* A faulty SCHEMA_CODES without the numeric range overflow.               *)
SCHEMA_CODES_without_range ==
    {pgerrors.INVALID_TEXT_REPRESENTATION, pgerrors.INVALID_DATETIME_FORMAT,
     pgerrors.DATETIME_FIELD_OVERFLOW}

SCHEMA_CODES ==
    {pgerrors.INVALID_TEXT_REPRESENTATION, pgerrors.NUMERIC_VALUE_OUT_OF_RANGE,
     pgerrors.INVALID_DATETIME_FORMAT, pgerrors.DATETIME_FIELD_OVERFLOW}

constraint_errors ==
    {pgerrors.NOT_NULL_VIOLATION, pgerrors.UNIQUE_VIOLATION,
     pgerrors.CHECK_VIOLATION}

(* Messages, by the first pattern of constraint_res they match ("other":   *)
(* none) or by the literal prefix the code tests.                          *)
constraint_res ==
    <<"cardinality", "link_target", "constraint", "newconstraint", "id",
      "link_target_del", "scalar">>

Messages == Range(constraint_res)
                \cup {"other", "missing required time zone",
                      "unexpected time zone", "covariance error"}

constraint_match(message) ==
    IF message \in Range(constraint_res) THEN message ELSE "None"

(* The detail field: absent, plain text, or text starting with "{": an     *)
(* empty object, an object without "code", one whose "code" names an       *)
(* error class, one whose "code" names none, or text that is not JSON.     *)
Details == {"None", "text", "{}", "{hint}", "{code:known}", "{code:unknown}",
            "{malformed"}

startswith_brace(detail) == detail \notin {"None", "text"}

(* Column names: absent, a pointer's backend name, or the "??"-prefixed    *)
(* form, as sequences of tokens.                                           *)
Columns == {<<>>, <<"ptr1">>, <<"ptr2">>, <<"??", "ptr1", "_", "x">>,
            <<"??", "ptr2">>}

ConstraintNames == {"None", "uuid;schemaconstr", "notuuid;schemaconstr",
                    "std::assert_single", "std::assert_exists",
                    "std::assert_distinct"}

Fields == [C : Codes, M : Messages, D : Details,
           s : {"None", "edgedbpub"}, t : {"None", "tab1"},
           c : Columns, n : ConstraintNames]

NoDetails ==
    [raise |-> "", errcls |-> "None", message |-> "None", detail |-> "None",
     detail_json |-> "None", code |-> "None", schema_name |-> "None",
     table_name |-> "None", column_name |-> <<>>, constraint_name |-> "None"]

(* json.loads on the detail texts above.                                   *)
json_loads(detail) == IF detail = "{malformed" THEN "raise" ELSE detail

json_truthy(detail_json) == detail_json \notin {"None", "{}"}

(* get_error_class_from_code(detail_json.get('code'))                      *)
error_class_of_detail(detail_json) ==
    IF detail_json = "{code:known}" THEN "InvalidReferenceError" ELSE "None"


(* A faulty get_error_details that never takes the error class from the   *)
(* detail JSON.                                                            *)
get_error_details_ignores_detail_code(fields) ==
    LET brace == fields.D # "None" /\ startswith_brace(fields.D)
        detail_json == IF brace THEN json_loads(fields.D) ELSE "None"
    IN  IF detail_json = "raise"
        THEN [NoDetails EXCEPT !.raise = "JSONDecodeError"]
        ELSE [NoDetails EXCEPT
                 !.message = fields.M,
                 !.detail = IF brace THEN "None" ELSE fields.D,
                 !.detail_json = detail_json, !.code = fields.C,
                 !.schema_name = fields.s, !.table_name = fields.t,
                 !.column_name = fields.c, !.constraint_name = fields.n]

(* get_error_details                                                       *)
get_error_details(fields) ==
    LET brace == fields.D # "None" /\ startswith_brace(fields.D)
        detail_json == IF brace THEN json_loads(fields.D) ELSE "None"
        detail == IF brace THEN "None" ELSE fields.D
        errcls == IF json_truthy(detail_json)
                  THEN error_class_of_detail(detail_json) ELSE "None"
    IN  IF detail_json = "raise"
        THEN [NoDetails EXCEPT !.raise = "JSONDecodeError"]
        ELSE IF errcls # "None"
        THEN [NoDetails EXCEPT !.errcls = errcls, !.message = fields.M,
                               !.detail_json = detail_json]
        ELSE [NoDetails EXCEPT
                 !.message = fields.M, !.detail = detail,
                 !.detail_json = detail_json, !.code = fields.C,
                 !.schema_name = fields.s, !.table_name = fields.t,
                 !.column_name = fields.c, !.constraint_name = fields.n]

(* A value returned (or an exception raised) by a pass: the error class    *)
(* and the pieces of its message; "$message" is the backend's message.     *)
Err(cls, msg) == [cls |-> cls, msg |-> msg]

NoResult == Err("None", <<>>)
SchemaRequired == Err("SchemaRequired", <<>>)
Raised(exc) == Err("raise", <<exc>>)

(* get_generic_exception_from_err_details                                  *)
get_generic_exception_from_err_details(err_details) ==
    IF err_details.errcls # "None"
    THEN Err(err_details.errcls, <<"$message">>)
    ELSE NoResult

(* uuidgen.UUID(constraint_id) on the part before the last ";".            *)
constraint_id_is_uuid(constraint_name) == constraint_name = "uuid;schemaconstr"

(* The constraint_errors branch of static_interpret_backend_error.         *)
static_constraint_error(d) ==
    LET error_type == constraint_match(d.message) IN
    CASE error_type = "None" -> Err("InternalServerError", <<"$message">>)
      [] error_type = "cardinality" ->
            Err("CardinalityViolationError", <<"cardinality violation">>)
      [] error_type = "link_target" ->
            IF json_truthy(d.detail_json)
            THEN Err("UnknownLinkError",
                     <<"invalid target for link ", "$lname", ": ", "$target",
                       " (expecting ", "$expected", ")">>)
            ELSE Err("UnknownLinkError", <<"invalid target for link">>)
      [] error_type = "link_target_del" ->
            Err("ConstraintViolationError", <<"$message">>)
      [] error_type = "constraint" ->
            IF d.constraint_name = "None"
            THEN Err("InternalServerError", <<"$message">>)
            ELSE IF ~constraint_id_is_uuid(d.constraint_name)
            THEN Err("InternalServerError", <<"$message">>)
            ELSE SchemaRequired
      [] error_type = "newconstraint" ->
            IF d.schema_name # "None" /\ d.table_name # "None"
                 /\ d.column_name # <<>>
            THEN SchemaRequired
            ELSE Err("InternalServerError", <<"$message">>)
      [] error_type = "scalar" -> SchemaRequired
      [] error_type = "id" ->
            Err("ConstraintViolationError",
                <<"unique link constraint violation">>)

(* static_interpret_backend_error                                          *)
static_interpret_backend_error(fields) ==
    LET d == get_error_details(fields)
        err == get_generic_exception_from_err_details(d)
    IN
    IF d.raise # "" THEN Raised(d.raise)
    ELSE IF err # NoResult THEN err
    ELSE IF d.code = pgerrors.NOT_NULL_VIOLATION THEN
        IF d.table_name # "None" \/ d.column_name # <<>>
        THEN SchemaRequired
        ELSE Err("InternalServerError", <<"$message">>)
    ELSE IF d.code \in constraint_errors THEN static_constraint_error(d)
    ELSE IF d.code \in SCHEMA_CODES THEN
        IF d.code = pgerrors.INVALID_DATETIME_FORMAT
             /\ d.message \in {"missing required time zone",
                               "unexpected time zone"}
        THEN Err("InvalidValueError", <<"$message">>)
        ELSE SchemaRequired
    ELSE IF d.code = pgerrors.INVALID_PARAMETER_VALUE
    THEN Err("InvalidValueError", <<"$message">>)
    ELSE IF d.code = pgerrors.WRONG_OBJECT_TYPE THEN
        IF d.column_name # <<>> THEN SchemaRequired
        ELSE Err("InvalidValueError", <<"$message">>)
    ELSE IF d.code = pgerrors.DIVISION_BY_ZERO
    THEN Err("DivisionByZeroError", <<"$message">>)
    ELSE IF d.code = pgerrors.INTERVAL_FIELD_OVERFLOW
    THEN Err("NumericOutOfRangeError", <<"$message">>)
    ELSE IF d.code = pgerrors.READ_ONLY_SQL_TRANSACTION
    THEN Err("TransactionError",
             <<"cannot execute query in a read-only transaction">>)
    ELSE IF d.code = pgerrors.SERIALIZATION_FAILURE
    THEN Err("TransactionSerializationError", <<"$message">>)
    ELSE IF d.code = pgerrors.DEADLOCK_DETECTED
    THEN Err("TransactionDeadlockError", <<"$message">>)
    ELSE IF d.code = pgerrors.INVALID_CATALOG_NAME
    THEN Err("UnknownDatabaseError", <<"$message">>)
    ELSE IF d.code = pgerrors.OBJECT_IN_USE
    THEN Err("ExecutionError", <<"$message">>)
    ELSE IF d.code = pgerrors.DUPLICATE_DATABASE
    THEN Err("DuplicateDatabaseDefinitionError", <<"$message">>)
    ELSE IF d.code = pgerrors.CARDINALITY_VIOLATION
              /\ d.constraint_name \in {"std::assert_single",
                                        "std::assert_exists"}
    THEN Err("CardinalityViolationError", <<"$message">>)
    ELSE IF d.code = pgerrors.CARDINALITY_VIOLATION
              /\ d.constraint_name = "std::assert_distinct"
    THEN Err("ConstraintViolationError", <<"$message">>)
    ELSE Err("InternalServerError", <<"$message">>)

(* colname[2:].partition('_')[0] on a token sequence.                      *)
RECURSIVE partition_head(_)
partition_head(toks) ==
    IF toks = <<>> \/ Head(toks) = "_" THEN <<>>
    ELSE <<Head(toks)>> \o partition_head(Tail(toks))

(* A faulty prefix handling that looks the whole column name up.           *)
pointer_id_of_column_keeps_prefix(colname) == colname

pointer_id_of_column(colname) ==
    IF Head(colname) = "??" THEN partition_head(Tail(colname)) ELSE colname

(* common.get_object_from_backend_name(schema, Pointer, ptr_id) followed   *)
(* by get_verbosename(schema, with_parent=True).                           *)
pointer_verbosename(ptr_id) ==
    CASE ptr_id = <<"ptr1">> -> "property 'name' of object type 'default::T'"
      [] ptr_id = <<"ptr2">> -> "link 'owner' of object type 'default::T'"
      [] OTHER -> "None"

(* A faulty second pass that always falls through to its last line.        *)
interpret_backend_error_falls_through(fields) ==
    LET d == get_error_details(fields) IN
    IF d.raise # "" THEN Raised(d.raise)
    ELSE Err("InternalServerError", <<"$message">>)

(* interpret_backend_error                                                 *)
interpret_backend_error(fields) ==
    LET d == get_error_details(fields) IN
    IF d.raise # "" THEN Raised(d.raise)
    ELSE IF d.code = pgerrors.NOT_NULL_VIOLATION THEN
        LET colname == d.column_name
            pname == IF colname # <<>>
                     THEN pointer_verbosename(pointer_id_of_column(colname))
                     ELSE "None"
        IN  IF pname # "None"
            THEN Err("MissingRequiredError",
                     <<"missing value for required ", pname>>)
            ELSE Err("InternalServerError", <<"$message">>)
    ELSE IF d.code \in constraint_errors THEN
        LET error_type == constraint_match(d.message) IN
        IF error_type = "constraint" THEN
            IF d.constraint_name = "None" THEN Raised("AttributeError")
            ELSE IF ~constraint_id_is_uuid(d.constraint_name)
            THEN Raised("ValueError")
            ELSE Err("ConstraintViolationError", <<"$constraint_message">>)
        ELSE IF error_type = "newconstraint"
        THEN Err("ConstraintViolationError",
                 <<"Existing ", "$source", ".", "$pointer",
                   " values violate the new constraint">>)
        ELSE IF error_type = "scalar"
        THEN Err("InvalidValueError", <<"$scalar_message">>)
        ELSE Err("InternalServerError", <<"$message">>)
    ELSE IF d.code = pgerrors.INVALID_TEXT_REPRESENTATION
    THEN Err("InvalidValueError", <<"$translated_message">>)
    ELSE IF d.code = pgerrors.NUMERIC_VALUE_OUT_OF_RANGE
    THEN Err("NumericOutOfRangeError", <<"$translated_message">>)
    ELSE IF d.code \in {pgerrors.INVALID_DATETIME_FORMAT,
                        pgerrors.DATETIME_FIELD_OVERFLOW}
    THEN Err("InvalidValueError", <<"$translated_message">>)
    ELSE IF d.code = pgerrors.WRONG_OBJECT_TYPE
              /\ d.message = "covariance error"
    THEN IF d.column_name = <<>> \/ d.table_name = "None"
         THEN Raised("TypeError")
         ELSE Err("InvalidLinkTargetError", <<"invalid target for ", "$vn">>)
    ELSE Err("InternalServerError", <<"$message">>)

ErrIdle ==
    /\ er_fields = [C |-> OtherCode, M |-> "other", D |-> "None",
                    s |-> "None", t |-> "None", c |-> <<>>, n |-> "None"]
    /\ er_result = NoResult
    /\ er_pc = "done"

(* A backend error has arrived.                                            *)
InitErr ==
    /\ er_fields \in Fields
    /\ er_result = NoResult
    /\ er_pc = "static"

(* First pass: translation without a schema.                               *)
StaticPass ==
    /\ er_pc = "static"
    /\ er_result' = static_interpret_backend_error(er_fields)
    /\ er_pc' = IF er_result' = SchemaRequired THEN "schema" ELSE "done"
    /\ UNCHANGED er_fields

(* Second pass: taken when the first returned SchemaRequired.              *)
SchemaPass ==
    /\ er_pc = "schema"
    /\ er_result' = interpret_backend_error(er_fields)
    /\ er_pc' = "done"
    /\ UNCHANGED er_fields

-----------------------------------------------------------------------------
(***************************************************************************)
(* THE OPERATION BUFFER OF A COMMAND  (edb/pgsql/delta.py, MetaCommand)    *)
(***************************************************************************)

MaxSubs == 3

Groups == {"prerequisite", "main", "caused"}

(* A subcommand: the group it was added to, whether it is a field update   *)
(* (sd.AlterObjectProperty), and its position among the additions.         *)
SubCommands == [group : Groups, is_field_update : BOOLEAN, decl : 1..MaxSubs]

CommandLists ==
    {ops \in SeqsUpTo(SubCommands, MaxSubs) :
        \A i \in DOMAIN ops : ops[i].decl = i}

(* sd.Command.get_prerequisites / get_subcommands(include_prerequisites=   *)
(* False, include_caused=False) / get_caused: one group, as added.         *)
get_group(ops, group) == SelectSeq(ops, LAMBDA op : op.group = group)

not_field_update(op) == ~op.is_field_update

(* A faulty apply_subcommands that walks the subcommands backwards.        *)
apply_subcommands_reversed(pgops, ops) ==
    LET main == SelectSeq(get_group(ops, "main"), not_field_update)
    IN  OrderedUpdate(pgops, [i \in 1..Len(main) |-> main[Len(main) + 1 - i]])

(* MetaCommand.apply_prerequisites                                         *)
apply_prerequisites(pgops, ops) ==
    OrderedUpdate(pgops,
        SelectSeq(get_group(ops, "prerequisite"), not_field_update))

(* MetaCommand.apply_subcommands                                           *)
apply_subcommands(pgops, ops) ==
    OrderedUpdate(pgops, SelectSeq(get_group(ops, "main"), not_field_update))

(* MetaCommand.apply_caused                                                *)
apply_caused(pgops, ops) ==
    OrderedUpdate(pgops, SelectSeq(get_group(ops, "caused"), not_field_update))

(* MetaCommand.generate: every buffered operation writes to the block, in  *)
(* buffer order.                                                           *)
generate(pgops) == [i \in DOMAIN pgops |-> pgops[i].decl]

CmdIdle ==
    /\ cm_ops = <<>>
    /\ cm_lookahead = FALSE
    /\ cm_pgops = <<>>
    /\ cm_block = <<>>
    /\ cm_pc = "done"

InitCmd ==
    /\ cm_ops \in CommandLists
    /\ cm_lookahead \in BOOLEAN
    /\ cm_pgops = <<>>
    /\ cm_block = <<>>
    /\ cm_pc = "begin"

(* _alter_begin: the prerequisites; AlterScalarType._alter_begin also      *)
(* applies the subcommands ahead of time.                                  *)
CmdBegin ==
    /\ cm_pc = "begin"
    /\ cm_pgops' = IF cm_lookahead
                   THEN apply_subcommands(
                            apply_prerequisites(cm_pgops, cm_ops), cm_ops)
                   ELSE apply_prerequisites(cm_pgops, cm_ops)
    /\ cm_pc' = "innards"
    /\ UNCHANGED <<cm_ops, cm_lookahead, cm_block>>

CmdInnards ==
    /\ cm_pc = "innards"
    /\ cm_pgops' = apply_subcommands(cm_pgops, cm_ops)
    /\ cm_pc' = "caused"
    /\ UNCHANGED <<cm_ops, cm_lookahead, cm_block>>

CmdCaused ==
    /\ cm_pc = "caused"
    /\ cm_pgops' = apply_caused(cm_pgops, cm_ops)
    /\ cm_pc' = "generate"
    /\ UNCHANGED <<cm_ops, cm_lookahead, cm_block>>

CmdGenerate ==
    /\ cm_pc = "generate"
    /\ cm_block' = generate(cm_pgops)
    /\ cm_pc' = "done"
    /\ UNCHANGED <<cm_ops, cm_lookahead, cm_pgops>>

-----------------------------------------------------------------------------
(***************************************************************************)
(* OBJECT-TYPE COMMANDS AND INHERITANCE VIEWS  (edb/pgsql/delta.py)        *)
(***************************************************************************)

MaxCmds == 2
MaxPtrCmds == 2

(* Object types: Leaf extends Mid extends Base.                            *)
ObjTypes == {"Base", "Mid", "Leaf"}

(* obj.get_ancestors(schema), nearest first.                               *)
get_ancestors(t) ==
    CASE t = "Leaf" -> <<"Mid", "Base">>
      [] t = "Mid"  -> <<"Base">>
      [] OTHER      -> <<>>

Descendants(t) == {d \in ObjTypes : t \in Range(get_ancestors(d))}

(* Pointers a type may own: a link and a property.                         *)
PtrNames == {"l1", "p1"}
is_link(p) == p = "l1"

(* A source of an inheritance view: an object type (p = "") or a pointer   *)
(* with its own table.                                                     *)
TypeObj(t) == [t |-> t, p |-> ""]
PtrObj(t, p) == [t |-> t, p |-> p]

(* has_table: every object type of the model is a plain type; a pointer    *)
(* has a table of its own when it is stored outside its source's table.    *)
has_table(obj, ptrs) ==
    IF obj.p = "" THEN TRUE ELSE ptrs[obj.t][obj.p] = "multi"

(* Ancestors of a source: of a type its ancestor types, of a pointer the   *)
(* pointers of the same name the ancestor types own.                       *)
obj_ancestors(obj, ptrs) ==
    IF obj.p = ""
    THEN [i \in DOMAIN get_ancestors(obj.t) |-> TypeObj(get_ancestors(obj.t)[i])]
    ELSE SelectSeq(
             [i \in DOMAIN get_ancestors(obj.t) |->
                 PtrObj(get_ancestors(obj.t)[i], obj.p)],
             LAMBDA a : ptrs[a.t][a.p] # "none")

(* A backend operation: what it does, to which object, the view's columns  *)
(* for a view operation, and the handler that produced it.                 *)
VOp(op, obj, arg, cols, why) ==
    [op |-> op, obj |-> obj, arg |-> arg, cols |-> cols, why |-> why]

(* get_inhview: the columns of the view of obj.                            *)
get_inhview(obj, ptrs, exclude_ptrs) ==
    IF obj.p = ""
    THEN {q \in PtrNames : ptrs[obj.t][q] = "single"} \ exclude_ptrs
    ELSE {"source", "target"}

(* The two operations alter_inhview adds for obj itself.                   *)
replace_view(obj, ptrs, why) ==
    <<VOp("CreateView", obj, "or_replace", get_inhview(obj, ptrs, {}), why),
      VOp("Comment", obj, "", {}, why)>>

(* alter_ancestor_inhviews                                                 *)
alter_ancestor_inhviews(obj, ptrs, why) ==
    LET bases == SelectSeq(obj_ancestors(obj, ptrs),
                           LAMBDA b : has_table(b, ptrs))
    IN  Concat([i \in DOMAIN bases |-> replace_view(bases[i], ptrs, why)])

(* alter_inhview                                                           *)
alter_inhview(obj, ptrs, alter_ancestors, why) ==
    replace_view(obj, ptrs, why)
        \o (IF alter_ancestors THEN alter_ancestor_inhviews(obj, ptrs, why)
            ELSE <<>>)

(* create_inhview                                                          *)
create_inhview(obj, ptrs, exclude_ptrs, alter_ancestors, why) ==
    <<VOp("CreateView", obj, "", get_inhview(obj, ptrs, exclude_ptrs), why),
      VOp("Comment", obj, "", {}, why)>>
        \o (IF alter_ancestors THEN alter_ancestor_inhviews(obj, ptrs, why)
            ELSE <<>>)

(* A faulty drop_inhview that leaves the view in place.                    *)
drop_inhview_skipped(obj, conditional, why) == <<>>

(* drop_inhview                                                            *)
drop_inhview(obj, conditional, why) ==
    <<VOp("DropView", obj, IF conditional THEN "if_exists" ELSE "", {}, why)>>

(* A faulty recreate_inhview that replaces the view in place.              *)
recreate_inhview_in_place(obj, ptrs, exclude_ptrs, alter_ancestors, why) ==
    <<VOp("CreateView", obj, "or_replace",
          get_inhview(obj, ptrs, exclude_ptrs), why),
      VOp("Comment", obj, "", {}, why)>>
        \o (IF alter_ancestors THEN alter_ancestor_inhviews(obj, ptrs, why)
            ELSE <<>>)

(* recreate_inhview                                                        *)
recreate_inhview(obj, ptrs, exclude_ptrs, alter_ancestors, why) ==
    drop_inhview(obj, TRUE, why)
        \o create_inhview(obj, ptrs, exclude_ptrs, alter_ancestors, why)

(* schedule_inhview_update: record the source on the topmost object-type   *)
(* command.                                                                *)
schedule_inhview_update(updates, source) == updates \cup {source}

(* apply_scheduled_inhview_updates, for one iteration order of each of     *)
(* the two sets.                                                           *)
apply_scheduled_inhview_updates(updates, ptrs, recreate_order, alter_order) ==
    IF updates = {} THEN <<>>
    ELSE Concat([i \in DOMAIN recreate_order |->
                    recreate_inhview(recreate_order[i], ptrs, {}, FALSE,
                                     "scheduled")])
         \o Concat([i \in DOMAIN alter_order |->
                    IF has_table(alter_order[i], ptrs)
                    THEN alter_inhview(alter_order[i], ptrs, FALSE, "scheduled")
                    ELSE <<>>])

(* A faulty to_alter that takes the direct bases only.                     *)
to_alter_bases_only(updates, ptrs) ==
    {obj_ancestors(src, ptrs)[1] :
        src \in {u \in updates : obj_ancestors(u, ptrs) # <<>>}} \ updates

(* to_alter of apply_scheduled_inhview_updates.                            *)
to_alter(updates, ptrs) ==
    UNION {Range(obj_ancestors(src, ptrs)) : src \in updates} \ updates

(* _create_link / _create_property: the operations of the pointer command  *)
(* for a pointer stored in the source's table ("single") or in a table of  *)
(* its own ("multi").                                                      *)
create_pointer(t, p, card, ptrs) ==
    IF card = "multi"
    THEN <<VOp("CreateTable", PtrObj(t, p), "if_not_exists", {}, "create")>>
            \o alter_inhview(PtrObj(t, p), ptrs, TRUE, "create")
    ELSE <<VOp("AddColumn", TypeObj(t), p, {}, "create")>>
            \o (IF is_link(p)
                THEN <<VOp("CreateIndex", TypeObj(t), p, {}, "create")>>
                ELSE <<>>)

(* _delete_link / _delete_property, with the kind of the enclosing         *)
(* object-type command; ptrs is the schema before the deletion (for a      *)
(* link) and the column excluded from the recreated view is the pointer's. *)
delete_pointer(t, p, ptrs, parent_kind) ==
    IF ptrs[t][p] = "single"
    THEN IF is_link(p) /\ parent_kind = "delete" THEN <<>>
         ELSE recreate_inhview(TypeObj(t), ptrs, {p}, TRUE, "delete")
                 \o <<VOp("DropColumn", TypeObj(t), p, {}, "delete")>>
    ELSE IF is_link(p)
         THEN drop_inhview(PtrObj(t, p), TRUE, "delete")
                 \o alter_ancestor_inhviews(PtrObj(t, p), ptrs, "delete")
                 \o <<VOp("DropTable", PtrObj(t, p), "if_exists", {}, "delete")>>
         ELSE drop_inhview(PtrObj(t, p), FALSE, "delete")
                 \o <<VOp("DropTable", PtrObj(t, p), "", {}, "delete")>>

(* A faulty _alter_pointer_cardinality that drops the column before it     *)
(* recreates the view.                                                     *)
alter_pointer_cardinality_drops_first(t, p, old, new) ==
    IF new[t][p] = "single"
    THEN <<VOp("AddColumn", TypeObj(t), p, {}, "cardinality"),
           VOp("Query", PtrObj(t, p), "UPDATE", {}, "cardinality")>>
            \o drop_inhview(PtrObj(t, p), FALSE, "cardinality")
            \o <<VOp("DropTable", PtrObj(t, p), "if_exists", {}, "cardinality")>>
            \o alter_inhview(TypeObj(t), new, TRUE, "cardinality")
    ELSE <<VOp("CreateTable", PtrObj(t, p), "if_not_exists", {}, "cardinality")>>
            \o alter_inhview(PtrObj(t, p), new, TRUE, "cardinality")
            \o <<VOp("Query", PtrObj(t, p), "INSERT", {}, "cardinality")>>
            \o <<VOp("DropColumn", TypeObj(t), p, {}, "cardinality")>>
            \o recreate_inhview(TypeObj(t), new, {}, TRUE, "cardinality")

(* _alter_pointer_cardinality; old and new are the schemas before and      *)
(* after the change.                                                       *)
alter_pointer_cardinality(t, p, old, new) ==
    IF new[t][p] = "single"
    THEN <<VOp("AddColumn", TypeObj(t), p, {}, "cardinality"),
           VOp("Query", PtrObj(t, p), "UPDATE", {}, "cardinality")>>
            \o drop_inhview(PtrObj(t, p), FALSE, "cardinality")
            \o <<VOp("DropTable", PtrObj(t, p), "if_exists", {}, "cardinality")>>
            \o alter_inhview(TypeObj(t), new, TRUE, "cardinality")
    ELSE <<VOp("CreateTable", PtrObj(t, p), "if_not_exists", {}, "cardinality")>>
            \o alter_inhview(PtrObj(t, p), new, TRUE, "cardinality")
            \o <<VOp("Query", PtrObj(t, p), "INSERT", {}, "cardinality")>>
            \o recreate_inhview(TypeObj(t), new, {}, TRUE, "cardinality")
            \o <<VOp("DropColumn", TypeObj(t), p, {}, "cardinality")>>

NoCommand == [kind |-> "none", typ |-> ""]

NoPointers == [q \in PtrNames |-> "none"]

ViewIdle ==
    /\ vw_exists = {}
    /\ vw_ptrs = [t \in ObjTypes |-> NoPointers]
    /\ vw_cur = NoCommand
    /\ vw_updates = {}
    /\ vw_ops = <<>>
    /\ vw_n = [cmds |-> MaxCmds, ptrs |-> MaxPtrCmds]

(* A schema before the delta: the existing types form a chain from Base,   *)
(* each with some stored pointers.                                         *)
InitView ==
    /\ vw_exists \in {{"Base"}, {"Base", "Mid"}, {"Base", "Mid", "Leaf"}}
    /\ vw_ptrs \in [ObjTypes -> [PtrNames -> {"none", "single", "multi"}]]
    /\ \A t \in ObjTypes :
          /\ t \notin vw_exists => vw_ptrs[t] = NoPointers
          /\ t = "Base" => vw_ptrs[t] = NoPointers
          /\ t = "Mid" => vw_ptrs[t]["p1"] = "none"
          /\ t = "Leaf" => vw_ptrs[t]["l1"] # "single"
    /\ vw_cur = NoCommand
    /\ vw_updates = {}
    /\ vw_ops = <<>>
    /\ vw_n = [cmds |-> 0, ptrs |-> 0]

(* An operation tagged with the object-type command that produced it: its *)
(* number in the delta, its kind and its subject.                          *)
Tagged(ops, n, cur) ==
    [i \in DOMAIN ops |->
        [op |-> ops[i].op, obj |-> ops[i].obj, arg |-> ops[i].arg,
         cols |-> ops[i].cols, why |-> ops[i].why,
         cmd |-> n, kind |-> cur.kind, subject |-> cur.typ]]

Emit(ops) == vw_ops' = vw_ops \o Tagged(ops, vw_n.cmds, vw_cur)

(* CreateObjectType._create_begin                                          *)
CreateObjectTypeBegin(t) ==
    /\ vw_cur = NoCommand
    /\ vw_n.cmds < MaxCmds
    /\ t \notin vw_exists
    /\ Range(get_ancestors(t)) \subseteq vw_exists
    /\ vw_exists' = vw_exists \cup {t}
    /\ vw_cur' = [kind |-> "create", typ |-> t]
    /\ vw_n' = [vw_n EXCEPT !.cmds = @ + 1]
    /\ vw_ops' = vw_ops \o Tagged(
          <<VOp("CreateTable", TypeObj(t), "", {}, "begin"),
            VOp("Comment", TypeObj(t), "", {}, "begin")>>
              \o create_inhview(TypeObj(t), vw_ptrs, {}, TRUE, "begin"),
          vw_n.cmds + 1, vw_cur')
    /\ UNCHANGED <<vw_ptrs, vw_updates>>

(* AlterObjectType / DeleteObjectType: entering the command.               *)
AlterOrDeleteObjectTypeBegin(t, kind) ==
    /\ vw_cur = NoCommand
    /\ vw_n.cmds < MaxCmds
    /\ t \in vw_exists
    /\ kind = "delete" => Descendants(t) \cap vw_exists = {}
    /\ vw_cur' = [kind |-> kind, typ |-> t]
    /\ vw_n' = [vw_n EXCEPT !.cmds = @ + 1]
    /\ UNCHANGED <<vw_exists, vw_ptrs, vw_updates, vw_ops>>

(* CreateLink / CreateProperty under the current object-type command.      *)
CreatePointer(p, card) ==
    /\ vw_cur.kind \in {"create", "alter"}
    /\ vw_n.ptrs < MaxPtrCmds
    /\ vw_ptrs[vw_cur.typ][p] = "none"
    /\ vw_ptrs' = [vw_ptrs EXCEPT ![vw_cur.typ][p] = card]
    /\ Emit(create_pointer(vw_cur.typ, p, card, vw_ptrs'))
    /\ vw_updates' = IF card = "single"
                     THEN schedule_inhview_update(vw_updates,
                                                  TypeObj(vw_cur.typ))
                     ELSE vw_updates
    /\ vw_n' = [vw_n EXCEPT !.ptrs = @ + 1]
    /\ UNCHANGED <<vw_exists, vw_cur>>

(* DeleteLink / DeleteProperty under the current object-type command.      *)
DeletePointer(p) ==
    /\ vw_cur.kind \in {"alter", "delete"}
    /\ vw_n.ptrs < MaxPtrCmds
    /\ vw_ptrs[vw_cur.typ][p] # "none"
    /\ vw_ptrs' = [vw_ptrs EXCEPT ![vw_cur.typ][p] = "none"]
    /\ Emit(delete_pointer(vw_cur.typ, p, vw_ptrs, vw_cur.kind))
    /\ vw_n' = [vw_n EXCEPT !.ptrs = @ + 1]
    /\ UNCHANGED <<vw_exists, vw_cur, vw_updates>>

(* AlterLink / AlterProperty changing the cardinality.                     *)
AlterPointerCardinality(p) ==
    /\ vw_cur.kind = "alter"
    /\ vw_n.ptrs < MaxPtrCmds
    /\ vw_ptrs[vw_cur.typ][p] # "none"
    /\ vw_ptrs' = [vw_ptrs EXCEPT ![vw_cur.typ][p] =
                      IF @ = "single" THEN "multi" ELSE "single"]
    /\ Emit(alter_pointer_cardinality(vw_cur.typ, p, vw_ptrs, vw_ptrs'))
    /\ vw_n' = [vw_n EXCEPT !.ptrs = @ + 1]
    /\ UNCHANGED <<vw_exists, vw_cur, vw_updates>>

(* A faulty end of the command that applies the scheduled updates but     *)
(* lets the command go on with its subcommands.                            *)
CreateOrAlterObjectTypeEndEarly ==
    /\ vw_cur.kind \in {"create", "alter"}
    /\ vw_updates # {}
    /\ \E ro \in Orderings(vw_updates) :
       \E ao \in Orderings(to_alter(vw_updates, vw_ptrs)) :
          Emit(apply_scheduled_inhview_updates(vw_updates, vw_ptrs, ro, ao))
    /\ vw_updates' = {}
    /\ UNCHANGED <<vw_exists, vw_ptrs, vw_n, vw_cur>>

(* CreateObjectType._create_finalize and the end of AlterObjectType.apply: *)
(* the scheduled updates.                                                  *)
CreateOrAlterObjectTypeEnd ==
    /\ vw_cur.kind \in {"create", "alter"}
    /\ \E ro \in Orderings(vw_updates) :
       \E ao \in Orderings(to_alter(vw_updates, vw_ptrs)) :
          Emit(apply_scheduled_inhview_updates(vw_updates, vw_ptrs, ro, ao))
    /\ vw_cur' = NoCommand
    /\ vw_updates' = {}
    /\ UNCHANGED <<vw_exists, vw_ptrs, vw_n>>

(* The end of DeleteObjectType.apply; its pointers have been deleted by    *)
(* its subcommands.                                                        *)
DeleteObjectTypeEnd ==
    /\ vw_cur.kind = "delete"
    /\ vw_ptrs[vw_cur.typ] = NoPointers
    /\ \E ro \in Orderings(vw_updates) :
       \E ao \in Orderings(to_alter(vw_updates, vw_ptrs)) :
          Emit(apply_scheduled_inhview_updates(vw_updates, vw_ptrs, ro, ao)
                 \o drop_inhview(TypeObj(vw_cur.typ), FALSE, "end")
                 \o <<VOp("DropTable", TypeObj(vw_cur.typ), "", {}, "end")>>)
    /\ vw_exists' = vw_exists \ {vw_cur.typ}
    /\ vw_cur' = NoCommand
    /\ vw_updates' = {}
    /\ UNCHANGED <<vw_ptrs, vw_n>>

-----------------------------------------------------------------------------
(***************************************************************************)
(* ENDPOINT DELETE ACTIONS (edb/pgsql/delta.py)                            *)
(*                                                                         *)
(* Link commands and object-type rebases of a delta record themselves in   *)
(* the delta's UpdateEndpointDeleteActions; when the delta ends, its apply *)
(* emits the operations that create or drop the DELETE triggers.  The      *)
(* links of the model are concrete, stored, non-inherited links of one     *)
(* source type.                                                            *)
(***************************************************************************)

MaxDeltas == 2
MaxDeltaCmds == 2

TrTargets == {"A", "C"}
TrSource == "S"
TrLinks == {"l1", "l2"}
DA == {"Restrict", "DeferredRestrict", "Allow"}
NoLink == [target |-> "", policy |-> "", inline |-> FALSE]
LinkAttrs == [target : TrTargets, policy : DA, inline : BOOLEAN]

(* The only inheritance of the model: C may have the base A.               *)
tr_ancestors(t, base) == IF t = "C" /\ base # "" THEN {base} ELSE {}
tr_descendants(t, base) == IF base # "" /\ t = base THEN {"C"} ELSE {}

(* Link.get_implicit_bases: the links of the model are not inherited.      *)
get_implicit_bases(l) == {}

TriggerKey(t, disposition, deferred, inline) ==
    [typ |-> t, disposition |-> disposition, deferred |-> deferred,
     inline |-> inline]

TOp(op, key, links) == [op |-> op, trig |-> key, links |-> links]

(* UpdateEndpointDeleteActions._update_action_triggers                     *)
update_action_triggers(objtype, links, disposition, deferred, inline) ==
    LET key == TriggerKey(objtype, disposition, deferred, inline)
    IN  IF links # {}
        THEN <<TOp("CreateOrReplaceFunction", key, links),
               TOp("CreateTrigger", key, links)>>
        ELSE <<TOp("DropTrigger", key, {}), TOp("DropFunction", key, {})>>

(* The link loop of apply: whether the delta carries modifications.        *)
apply_modifications(link_ops, changed_targets) ==
    \/ \E ct \in changed_targets : ct.removed_bases
    \/ \E i \in DOMAIN link_ops : link_ops[i].kind # "CreateLink"

(* The link loop of apply: the affected sources.                           *)
apply_affected_sources(link_ops) ==
    IF link_ops # <<>> THEN {TrSource} ELSE {}

(* The link loop of apply: the affected targets.                           *)
apply_affected_targets(link_ops, changed_targets) ==
    {ct.typ : ct \in changed_targets}
    \cup UNION {
        LET lop == link_ops[i]
            target_is_affected ==
                ~(lop.eff.policy \in {"Restrict", "DeferredRestrict"}
                    /\ get_implicit_bases(lop.link) # {})
        IN  IF lop.kind = "DeleteLink"
            THEN IF target_is_affected THEN {lop.eff.target} ELSE {}
            ELSE (IF target_is_affected THEN {lop.eff.target} ELSE {})
                 \cup (IF lop.kind = "AlterLink"
                          /\ lop.eff.target # lop.orig.target
                       THEN {lop.orig.target} ELSE {})
        : i \in DOMAIN link_ops}

(* The source loop of apply.                                               *)
apply_sources(sources, links, modifications) ==
    IF sources = {} THEN <<>>
    ELSE LET stored == {l \in TrLinks : links[l] # NoLink
                                          /\ ~links[l].inline}
         IN  IF stored # {} \/ modifications
             THEN update_action_triggers(TrSource, stored, "source",
                                         FALSE, FALSE)
             ELSE <<>>

(* The body of the target loop of apply, for one target.                   *)
apply_target(target, links, base, modifications) ==
    LET inbound == {l \in TrLinks :
                       /\ links[l] # NoLink
                       /\ links[l].target
                             \in {target} \cup tr_ancestors(target, base)
                       /\ ~(links[l].policy
                               \in {"Restrict", "DeferredRestrict"}
                            /\ get_implicit_bases(l) # {})}
        pick(deferred, inline) ==
            {l \in inbound :
                /\ links[l].inline = inline
                /\ (links[l].policy = "DeferredRestrict") = deferred}
        update(deferred, inline) ==
            IF pick(deferred, inline) # {} \/ modifications
            THEN update_action_triggers(target, pick(deferred, inline),
                                        "target", deferred, inline)
            ELSE <<>>
    IN  update(FALSE, FALSE) \o update(FALSE, TRUE)
            \o update(TRUE, FALSE) \o update(TRUE, TRUE)

(* UpdateEndpointDeleteActions.apply, the targets taken in a given order.  *)
all_affected_targets(link_ops, changed_targets, base) ==
    LET affected == apply_affected_targets(link_ops, changed_targets)
    IN  affected \cup UNION {tr_descendants(t, base) : t \in affected}

endpoint_apply(link_ops, changed_targets, links, base, order) ==
    IF link_ops = <<>> /\ changed_targets = {} THEN <<>>
    ELSE LET modifications == apply_modifications(link_ops, changed_targets)
         IN  apply_sources(apply_affected_sources(link_ops), links,
                           modifications)
             \o Concat([i \in DOMAIN order |->
                           apply_target(order[i], links, base,
                                        modifications)])

(* PointerMetaCommand.schedule_endpoint_delete_action_update               *)
schedule_link_op(link_ops, kind, l, orig, eff) ==
    LET same == {i \in DOMAIN link_ops : link_ops[i].link = l}
        first == CHOOSE i \in same : \A j \in same : i <= j
        kept == IF kind = "DeleteLink" /\ same # {}
                THEN SubSeq(link_ops, 1, first - 1)
                        \o SubSeq(link_ops, first + 1, Len(link_ops))
                ELSE link_ops
    IN  Append(kept, [kind |-> kind, link |-> l, orig |-> orig, eff |-> eff])

(* The backend after the operations: triggers are created unless they      *)
(* exist, functions are replaced.                                          *)
RECURSIVE run_trigger_ops(_, _)
run_trigger_ops(db, ops) ==
    IF ops = <<>> THEN db
    ELSE LET o == Head(ops)
             next ==
                CASE o.op = "CreateOrReplaceFunction" ->
                        [db EXCEPT !.functions =
                            {f \in @ : f.trig # o.trig}
                                \cup {[trig |-> o.trig, links |-> o.links]}]
                  [] o.op = "CreateTrigger" ->
                        [db EXCEPT !.triggers = @ \cup {o.trig}]
                  [] o.op = "DropTrigger" ->
                        [db EXCEPT !.triggers = @ \ {o.trig}]
                  [] OTHER ->
                        [db EXCEPT !.functions =
                            {f \in @ : f.trig # o.trig}]
         IN  run_trigger_ops(next, Tail(ops))

TrigIdle ==
    /\ tr_links = [l \in TrLinks |-> NoLink]
    /\ tr_base = ""
    /\ tr_link_ops = <<>>
    /\ tr_changed_targets = {}
    /\ tr_db = [triggers |-> {}, functions |-> {}]
    /\ tr_pgops = <<>>
    /\ tr_n = [deltas |-> MaxDeltas, cmds |-> MaxDeltaCmds]

(* A database with the object types and no links yet.                      *)
InitTrig ==
    /\ tr_links = [l \in TrLinks |-> NoLink]
    /\ tr_base \in {"", "A"}
    /\ tr_link_ops = <<>>
    /\ tr_changed_targets = {}
    /\ tr_db = [triggers |-> {}, functions |-> {}]
    /\ tr_pgops = <<>>
    /\ tr_n = [deltas |-> 0, cmds |-> 0]

InDelta == tr_n.deltas < MaxDeltas /\ tr_n.cmds < MaxDeltaCmds

(* CreateLink: _create_link schedules the update for a stored link.        *)
TrCreateLink(l, attrs) ==
    /\ InDelta
    /\ tr_links[l] = NoLink
    /\ tr_links' = [tr_links EXCEPT ![l] = attrs]
    /\ tr_link_ops' =
          schedule_link_op(tr_link_ops, "CreateLink", l, NoLink, attrs)
    /\ tr_n' = [tr_n EXCEPT !.cmds = @ + 1]
    /\ UNCHANGED <<tr_base, tr_changed_targets, tr_db, tr_pgops>>

(* AlterLink with any of SetLinkType, on_target_delete and cardinality:    *)
(* _alter_innards schedules the update when the command sets               *)
(* on_target_delete or cardinality.                                        *)
TrAlterLink(l, attrs) ==
    /\ InDelta
    /\ tr_links[l] # NoLink
    /\ attrs # tr_links[l]
    /\ tr_links' = [tr_links EXCEPT ![l] = attrs]
    /\ LET otd == attrs.policy # tr_links[l].policy
           card == attrs.inline # tr_links[l].inline
       IN  tr_link_ops' =
              IF otd \/ card
              THEN schedule_link_op(tr_link_ops, "AlterLink", l,
                                    tr_links[l], attrs)
              ELSE tr_link_ops
    /\ tr_n' = [tr_n EXCEPT !.cmds = @ + 1]
    /\ UNCHANGED <<tr_base, tr_changed_targets, tr_db, tr_pgops>>

(* DeleteLink: _delete_link schedules the update; the link is still in the *)
(* schema the command records.                                             *)
TrDeleteLink(l) ==
    /\ InDelta
    /\ tr_links[l] # NoLink
    /\ tr_links' = [tr_links EXCEPT ![l] = NoLink]
    /\ tr_link_ops' =
          schedule_link_op(tr_link_ops, "DeleteLink", l,
                           tr_links[l], tr_links[l])
    /\ tr_n' = [tr_n EXCEPT !.cmds = @ + 1]
    /\ UNCHANGED <<tr_base, tr_changed_targets, tr_db, tr_pgops>>

(* RebaseObjectType of C, to or from the base A.                           *)
TrRebaseObjectType ==
    /\ InDelta
    /\ tr_base' = IF tr_base = "" THEN "A" ELSE ""
    /\ tr_changed_targets' =
          tr_changed_targets
              \cup {[typ |-> "C", removed_bases |-> tr_base # ""]}
    /\ tr_n' = [tr_n EXCEPT !.cmds = @ + 1]
    /\ UNCHANGED <<tr_links, tr_link_ops, tr_db, tr_pgops>>

(* The end of the delta: UpdateEndpointDeleteActions.apply, and the        *)
(* backend running what it emitted.                                        *)
TrApply ==
    /\ tr_n.deltas < MaxDeltas
    /\ tr_n.cmds > 0
    /\ \E order \in Orderings(all_affected_targets(
                                 tr_link_ops, tr_changed_targets, tr_base)) :
          /\ tr_pgops' = endpoint_apply(tr_link_ops, tr_changed_targets,
                                        tr_links, tr_base, order)
          /\ tr_db' = run_trigger_ops(tr_db, tr_pgops')
    /\ tr_link_ops' = <<>>
    /\ tr_changed_targets' = {}
    /\ tr_n' = [deltas |-> tr_n.deltas + 1, cmds |-> 0]
    /\ UNCHANGED <<tr_links, tr_base>>

-----------------------------------------------------------------------------
(***************************************************************************)
(* STARTING THE SERVER (edb/server/cluster.py)                             *)
(*                                                                         *)
(* BaseCluster.start spawns the server and waits for it.  Time is counted  *)
(* in ticks of half a second, so that int(left) can round.                 *)
(***************************************************************************)

MaxWait == 2
MaxLines == 2

Ticks(seconds) == seconds + seconds
WholeSeconds(ticks) == ticks \div Ticks(1)
Max(a, b) == IF a >= b THEN a ELSE b

StatusLines == {"other", "ready", "ready_invalid", "ready_incomplete", "eof"}
StError(cls, msg) == [cls |-> cls, msg |-> msg]
NoStError == StError("", "")

(* A faulty _read_server_status that takes the end of the stream for a     *)
(* status.                                                                 *)
read_server_status_accepts_eof(line) ==
    CASE line = "other" -> "continue"
      [] line = "ready_invalid" -> "invalid status line"
      [] OTHER -> "data"

(* _read_server_status on the next line of the status channel: go on       *)
(* reading, fail, or return the decoded status.                            *)
read_server_status(line) ==
    CASE line = "eof" -> "terminated"
      [] line = "other" -> "continue"
      [] line = "ready_invalid" -> "invalid status line"
      [] OTHER -> "data"

(* f"{max(1, int(left))}s", in ticks.                                      *)
wait_until_available(left) == Ticks(Max(1, WholeSeconds(left)))

StartIdle ==
    /\ st_port = "fixed"
    /\ st_timeout = 0
    /\ st_clock = 0
    /\ st_left = 0
    /\ st_ready = FALSE
    /\ st_lines = 0
    /\ st_pc = "done"
    /\ st_error = NoStError

InitStart ==
    /\ st_port \in {"auto", "fixed"}
    /\ st_timeout \in 1..MaxWait
    /\ st_clock = 0
    /\ st_left = 0
    /\ st_ready = FALSE
    /\ st_lines = 0
    /\ st_pc = "start"
    /\ st_error = NoStError

(* start: the subprocess is spawned, with a status socket only when the    *)
(* port is 0; _wait_for_server begins.                                     *)
StSpawn ==
    /\ st_pc = "start"
    /\ st_pc' = IF st_port = "auto" THEN "reading" ELSE "admin"
    /\ st_left' = IF st_port = "auto" THEN 0
                  ELSE wait_until_available(Ticks(st_timeout))
    /\ UNCHANGED <<st_port, st_timeout, st_clock, st_ready, st_lines,
                   st_error>>

(* Time passes while start waits for a line or for the admin query.        *)
StTick ==
    /\ \/ st_pc = "reading" /\ st_clock < Ticks(st_timeout)
          /\ UNCHANGED st_left
       \/ st_pc = "admin" /\ st_left > 0 /\ st_left' = st_left - 1
    /\ st_clock' = st_clock + 1
    /\ UNCHANGED <<st_port, st_timeout, st_ready, st_lines, st_pc, st_error>>

(* test(): one line arrives before the wait_for timeout.                   *)
StReadLine(line) ==
    /\ st_pc = "reading"
    /\ LET outcome == read_server_status(line)
       IN  CASE outcome = "continue" ->
                  /\ st_lines < MaxLines
                  /\ st_lines' = st_lines + 1
                  /\ UNCHANGED <<st_left, st_ready, st_pc, st_error>>
             [] outcome = "data" /\ line = "ready_incomplete" ->
                  /\ st_pc' = "failed"
                  /\ st_error' = StError("KeyError", "port")
                  /\ UNCHANGED <<st_left, st_ready, st_lines>>
             [] outcome = "data" /\ line # "ready_incomplete" ->
                  /\ st_pc' = "admin"
                  /\ st_ready' = (line = "ready")
                  /\ st_left' = wait_until_available(
                                    Ticks(st_timeout) - st_clock)
                  /\ UNCHANGED <<st_lines, st_error>>
             [] OTHER ->
                  /\ st_pc' = "failed"
                  /\ st_error' = StError("ClusterError", outcome)
                  /\ UNCHANGED <<st_left, st_ready, st_lines>>
    /\ UNCHANGED <<st_port, st_timeout, st_clock>>

(* test(): asyncio.wait_for times out.                                     *)
StReadTimeout ==
    /\ st_pc = "reading"
    /\ st_clock = Ticks(st_timeout)
    /\ st_pc' = "failed"
    /\ st_error' = StError("ClusterError", "did not initialize")
    /\ UNCHANGED <<st_port, st_timeout, st_clock, st_left, st_ready,
                   st_lines>>

(* _admin_query returns, at the latest when --wait-until-available is up.  *)
StAdminQuery(returncode) ==
    /\ st_pc = "admin"
    /\ IF returncode = 0
       THEN st_pc' = "returned" /\ UNCHANGED st_error
       ELSE /\ st_pc' = "failed"
            /\ st_error' = StError("ClusterError", "could not connect")
    /\ UNCHANGED <<st_port, st_timeout, st_clock, st_left, st_ready,
                   st_lines>>

-----------------------------------------------------------------------------
(***************************************************************************)
(* THE CONNECTION WATCHDOG (edb/server/pgcluster.py)                       *)
(*                                                                         *)
(* Cluster._test_connection polls postmaster.pid and then the backend.     *)
(* Time is counted in ticks of 100 ms.                                     *)
(***************************************************************************)

MaxTimeout == 2

Seconds(n) == 10 * n

PidFiles == {"missing", "incomplete", "stale", "no_host", "complete"}
ConnectOutcomes == {"refused", "timeout", "PostgresError", "connected"}

(* A faulty sleep_time without the short first sleep.                      *)
sleep_time_always_one_second(n) == Seconds(1)

(* sleep_time = 1 if n else 0.10                                           *)
sleep_time(n) == IF n # 0 THEN Seconds(1) ELSE 1

(* _connection_addr_from_pidfile: the address, or "NotReady" for           *)
(* PostgresPidFileNotReadyError.  A pidfile of another postmaster is       *)
(* recognised only when the daemon's pid is known.                         *)
connection_addr_from_pidfile(pidfile, daemon_pid) ==
    CASE pidfile \in {"missing", "incomplete", "no_host"} -> "NotReady"
      [] pidfile = "stale" -> IF daemon_pid THEN "NotReady" ELSE "old_addr"
      [] OTHER -> "addr"

(* _get_connection_addr: the pidfile is read until an address is known.    *)
get_connection_addr(addr, pidfile, daemon_pid) ==
    IF addr = "None" THEN connection_addr_from_pidfile(pidfile, daemon_pid)
    ELSE addr

(* How long asyncpg.connect(timeout=5) takes to fail.                      *)
connect_time(outcome) == IF outcome = "timeout" THEN Seconds(5) ELSE 0

WatchIdle ==
    /\ wd_timeout = 0
    /\ wd_n = 0
    /\ wd_elapsed = 0
    /\ wd_slept = <<>>
    /\ wd_addr = "None"
    /\ wd_pidfile = "missing"
    /\ wd_daemon_pid = FALSE
    /\ wd_pc = "done"
    /\ wd_result = ""

InitWatch ==
    /\ wd_timeout \in 1..MaxTimeout
    /\ wd_n = 0
    /\ wd_elapsed = 0
    /\ wd_slept = <<>>
    /\ wd_addr = "None"
    /\ wd_pidfile \in PidFiles
    /\ wd_daemon_pid \in BOOLEAN
    /\ wd_pc = "loop"
    /\ wd_result = ""

(* The backend writes, completes or replaces its pidfile.                  *)
WdPidfile(pidfile) ==
    /\ wd_pc = "loop"
    /\ wd_pidfile # pidfile
    /\ pidfile # "stale"
    /\ wd_pidfile' = pidfile
    /\ UNCHANGED <<wd_timeout, wd_n, wd_elapsed, wd_slept, wd_addr,
                   wd_daemon_pid, wd_pc, wd_result>>

(* One iteration of the loop that finds the pidfile not ready, or fails to *)
(* connect: sleep and continue.                                            *)
WdRetry(outcome) ==
    /\ wd_pc = "loop"
    /\ wd_n <= wd_timeout
    /\ outcome \in {"refused", "timeout"}
    /\ LET conn_addr ==
              get_connection_addr(wd_addr, wd_pidfile, wd_daemon_pid)
           spent == IF conn_addr = "NotReady" THEN 0
                    ELSE connect_time(outcome)
       IN  /\ conn_addr = "NotReady" => outcome = "refused"
           /\ wd_addr' = IF conn_addr = "NotReady" THEN wd_addr ELSE conn_addr
           /\ wd_elapsed' = wd_elapsed + spent + sleep_time(wd_n)
           /\ wd_slept' = Append(wd_slept, sleep_time(wd_n))
    /\ wd_n' = wd_n + 1
    /\ UNCHANGED <<wd_timeout, wd_pidfile, wd_daemon_pid, wd_pc, wd_result>>

(* One iteration that reaches the backend: connected, or an error that     *)
(* ends the loop.                                                          *)
WdBreak(outcome) ==
    /\ wd_pc = "loop"
    /\ wd_n <= wd_timeout
    /\ outcome \in {"PostgresError", "connected"}
    /\ LET conn_addr ==
              get_connection_addr(wd_addr, wd_pidfile, wd_daemon_pid)
       IN  /\ conn_addr # "NotReady"
           /\ wd_addr' = conn_addr
    /\ wd_pc' = "done"
    /\ wd_result' = IF outcome = "connected" THEN "running"
                    ELSE "not-initialized"
    /\ UNCHANGED <<wd_timeout, wd_n, wd_elapsed, wd_slept, wd_pidfile,
                   wd_daemon_pid>>

(* The loop runs out of attempts.                                          *)
WdExhausted ==
    /\ wd_pc = "loop"
    /\ wd_n = wd_timeout + 1
    /\ wd_pc' = "done"
    /\ wd_result' = "not-initialized"
    /\ UNCHANGED <<wd_timeout, wd_n, wd_elapsed, wd_slept, wd_addr,
                   wd_pidfile, wd_daemon_pid>>

-----------------------------------------------------------------------------
(***************************************************************************)
(* THE MANAGED BACKEND CLUSTER  (edb/server/pgcluster.py, cluster.py)      *)
(***************************************************************************)

MaxOps == 2

(* What the calls an operation makes into its environment do: pg_ctl       *)
(* status, the spawned postgres, asyncpg.connect, the template-database    *)
(* query, conn.close() and pg_ctl stop.                                    *)
Outcomes ==
    [pg_ctl : {"ok", "fail"}, spawn : {"up", "exits", "oserror"},
     connect : {"ok", "raise"}, probe : {"exists", "missing", "raise"},
     close : {"ok", "raise"}, stop : {"ok", "raise"}]

World(status, spawned) == [status |-> status, spawned |-> spawned]
Spawn(prog, from) == [prog |-> prog, from |-> from]

Returned(ret, w) == [ret |-> ret, err |-> "", w |-> w]
Failed(err, w) == [ret |-> "", err |-> err, w |-> w]

(* pgcluster.Cluster.get_status: pg_ctl status exits 4, 3 or 0 by the      *)
(* state of the data directory and the postmaster.                         *)
pg_get_status(w, o) ==
    IF o.pg_ctl = "fail" THEN Failed("ClusterError", w)
    ELSE Returned(w.status, w)

(* A faulty Cluster.start that spawns postgres whatever the status.        *)
pg_start_unconditionally(w, o) ==
    Returned("None", World("running",
                           Append(w.spawned, Spawn("postgres", w.status))))

(* pgcluster.Cluster.start                                                 *)
pg_start(w, o) ==
    LET status == pg_get_status(w, o) IN
    IF status.err # "" THEN status
    ELSE IF status.ret = "running" THEN Returned("None", w)
    ELSE IF status.ret = "not-initialized" THEN Failed("ClusterError", w)
    ELSE IF o.spawn = "oserror" THEN Failed("OSError", w)
    ELSE Returned("None",
                  World(IF o.spawn = "up" THEN "running" ELSE w.status,
                        Append(w.spawned, Spawn("postgres", w.status))))

(* pgcluster.Cluster.stop: pg_ctl stop fails when no server is running or  *)
(* when the server does not shut down in time.                             *)
pg_stop(w, o) ==
    IF w.status # "running" \/ o.stop = "raise"
    THEN Failed("ClusterError", w)
    ELSE Returned("None", World("stopped", w.spawned))

(* pgcluster.Cluster.init                                                  *)
pg_init(w, o) ==
    LET status == pg_get_status(w, o) IN
    IF status.err # "" THEN status
    ELSE IF status.ret # "not-initialized" THEN Failed("ClusterError", w)
    ELSE Returned("None",
                  World("stopped",
                        Append(w.spawned, Spawn("initdb", w.status))))

(* The try/finally of BaseCluster.get_status.                              *)
probe_template(w, o, initially_stopped) ==
    LET connected == w.status = "running" /\ o.connect = "ok"
        failed == ~connected \/ o.probe = "raise"
        stopped == IF initially_stopped THEN pg_stop(w, o)
                   ELSE Returned("None", w)
    IN  IF connected /\ o.close = "raise" THEN Failed("close", w)
        ELSE IF stopped.err # "" THEN stopped
        ELSE IF failed THEN Failed("connect", stopped.w)
        ELSE Returned(
                 IF initially_stopped
                 THEN IF o.probe = "exists" THEN "stopped"
                      ELSE "not-initialized,stopped"
                 ELSE IF o.probe = "exists" THEN "running"
                      ELSE "not-initialized,running",
                 stopped.w)

(* BaseCluster.get_status                                                  *)
base_get_status(w, o) ==
    LET pg_status == pg_get_status(w, o)
        started == pg_start(w, o)
    IN  IF pg_status.err # "" THEN pg_status
        ELSE IF pg_status.ret = "stopped"
        THEN IF started.err # "" THEN started
             ELSE probe_template(started.w, o, TRUE)
        ELSE IF pg_status.ret = "not-initialized"
        THEN Returned("not-initialized", w)
        ELSE probe_template(w, o, FALSE)

startswith_not_initialized(status) ==
    status \in {"not-initialized", "not-initialized,stopped",
                "not-initialized,running"}

(* BaseCluster.init; _init runs edgedb-server --bootstrap-only.            *)
base_init(w, o) ==
    LET cluster_status == base_get_status(w, o) IN
    IF cluster_status.err # "" THEN cluster_status
    ELSE IF ~startswith_not_initialized(cluster_status.ret)
    THEN Failed("ClusterError", cluster_status.w)
    ELSE Returned("True",
                  World(cluster_status.w.status,
                        Append(cluster_status.w.spawned,
                               Spawn("bootstrap", cluster_status.w.status))))

NoOp == [op |-> "none", pre |-> World("not-initialized", <<>>), seen |-> "",
         ret |-> "", err |-> ""]

ClusterIdle ==
    /\ cb_status = "not-initialized"
    /\ cb_spawned = <<>>
    /\ cb_last = NoOp
    /\ cb_n = 0

(* A data directory in any of its states, and nothing spawned yet.         *)
InitCluster ==
    /\ cb_status \in {"not-initialized", "stopped", "running"}
    /\ cb_spawned = <<>>
    /\ cb_last = NoOp
    /\ cb_n = 0

CbWorld == World(cb_status, cb_spawned)

(* An operation ends: seen is the status it read before acting, "" when   *)
(* reading it failed.                                                      *)
CbDone(op, seen, r) ==
    /\ cb_status' = r.w.status
    /\ cb_spawned' = r.w.spawned
    /\ cb_last' = [op |-> op, pre |-> CbWorld, seen |-> seen.ret,
                   ret |-> r.ret, err |-> r.err]
    /\ cb_n' = cb_n + 1

CbGetStatus ==
    /\ cb_n < MaxOps
    /\ \E o \in Outcomes :
          CbDone("get_status", pg_get_status(CbWorld, o),
                 base_get_status(CbWorld, o))

CbInit ==
    /\ cb_n < MaxOps
    /\ \E o \in Outcomes :
          CbDone("init", base_get_status(CbWorld, o), base_init(CbWorld, o))

CbPgStart ==
    /\ cb_n < MaxOps
    /\ \E o \in Outcomes :
          CbDone("pg_start", pg_get_status(CbWorld, o), pg_start(CbWorld, o))

CbPgInit ==
    /\ cb_n < MaxOps
    /\ \E o \in Outcomes :
          CbDone("pg_init", pg_get_status(CbWorld, o), pg_init(CbWorld, o))

CbPgStop ==
    /\ cb_n < MaxOps
    /\ \E o \in Outcomes :
          CbDone("pg_stop", Returned("", CbWorld), pg_stop(CbWorld, o))

-----------------------------------------------------------------------------
(***************************************************************************)
(* EXPRESSION BOXES (edb/schema/expr.py)                                   *)
(*                                                                         *)
(* An Expression carries its text, the set of schema objects it refers to  *)
(* (None until it is compiled) and two lazily populated fields: the parsed *)
(* tree _qlast and the compiled IR _irast.  None is the empty tuple for    *)
(* the two trees and NoneRefs for refs.                                    *)
(***************************************************************************)
MaxBoxOps == 3

Texts == {"SELECT 1", "SELECT Foo.bar"}
RefIds == {"id1", "id2"}
NoneRefs == {"None"}
NoneTree == <<>>

Expression(text, refs, _qlast, _irast) ==
    [text |-> text, refs |-> refs, _qlast |-> _qlast, _irast |-> _irast]

(* The mutation of __getstate__ that lets the parsed tree through.         *)
Expression_getstate_keeps_qlast(self) ==
    [text |-> self.text, refs |-> self.refs,
     _qlast |-> self._qlast, _irast |-> NoneTree]

Expression_getstate(self) ==
    [text |-> self.text, refs |-> self.refs,
     _qlast |-> NoneTree, _irast |-> NoneTree]

(* Unpickling installs the fields of the state in a new object.            *)
Expression_setstate(state) ==
    Expression(state.text, state.refs, state._qlast, state._irast)

parse_fragment(text) == <<"qlast", text>>

(* The qlast property: the box after the access; its _qlast is the value.  *)
qlast(self) ==
    IF self._qlast = NoneTree
    THEN [self EXCEPT !._qlast = parse_fragment(self.text)]
    ELSE self

not_compiled(expr) == Expression(expr.text, NoneRefs, NoneTree, NoneTree)

(* compiled(): schema_refs is what the IR of the text refers to in the     *)
(* schema it was compiled against.                                         *)
compiled(expr, schema_refs) ==
    Expression(expr.text, schema_refs, qlast(expr)._qlast,
               <<"irast", qlast(expr)._qlast>>)

from_expr(expr) == Expression(expr.text, expr.refs, expr._qlast, expr._irast)

(* ObjectSet.schema_reduce and ObjectCollection.schema_restore: the ids of *)
(* the collection as a tuple, and a collection of the ids of the tuple.    *)
refs_schema_reduce(refs) ==
    <<"ObjectSet",
      CHOOSE q \in SeqsUpTo(RefIds, Cardinality(RefIds)) :
          Len(q) = Cardinality(refs) /\ Range(q) = refs>>

refs_schema_restore(refs_data) == Range(refs_data[2])

(* schema_reduce: asserts that the expression is compiled.                 *)
schema_reduce(self) ==
    IF self.refs = NoneRefs
    THEN [err |-> "AssertionError", data |-> <<>>]
    ELSE [err |-> "", data |-> <<self.text, refs_schema_reduce(self.refs)>>]

schema_restore(data) ==
    Expression(data[1], refs_schema_restore(data[2]), NoneTree, NoneTree)

NoBoxOp == [op |-> "none", pre |-> Expression("", NoneRefs, NoneTree, NoneTree),
            state |-> <<>>, err |-> ""]

BoxIdle ==
    /\ bx_expr = Expression("", NoneRefs, NoneTree, NoneTree)
    /\ bx_last = NoBoxOp
    /\ bx_n = 0

(* Expression(text=...) or from_ast(), which keeps the tree it was given.  *)
InitBox ==
    /\ \E text \in Texts :
          \E _qlast \in {NoneTree, parse_fragment(text)} :
              bx_expr = Expression(text, NoneRefs, _qlast, NoneTree)
    /\ bx_last = NoBoxOp
    /\ bx_n = 0

BxDone(op, state, err, expr) ==
    /\ bx_expr' = expr
    /\ bx_last' = [op |-> op, pre |-> bx_expr, state |-> state, err |-> err]
    /\ bx_n' = bx_n + 1

BxQlast ==
    /\ bx_n < MaxBoxOps
    /\ BxDone("qlast", <<>>, "", qlast(bx_expr))

BxCompiled ==
    /\ bx_n < MaxBoxOps
    /\ \E schema_refs \in SUBSET RefIds :
          BxDone("compiled", <<>>, "", compiled(bx_expr, schema_refs))

BxNotCompiled ==
    /\ bx_n < MaxBoxOps
    /\ BxDone("not_compiled", <<>>, "", not_compiled(bx_expr))

BxFromExpr ==
    /\ bx_n < MaxBoxOps
    /\ BxDone("from_expr", <<>>, "", from_expr(bx_expr))

(* The box is pickled and the copy takes its place.                        *)
BxPickle ==
    /\ bx_n < MaxBoxOps
    /\ BxDone("pickle", Expression_getstate(bx_expr), "",
              Expression_setstate(Expression_getstate(bx_expr)))

(* The box is reduced to schema data and restored from it.                 *)
BxSchemaReduce ==
    /\ bx_n < MaxBoxOps
    /\ LET r == schema_reduce(bx_expr) IN
       IF r.err # ""
       THEN BxDone("schema_reduce", <<>>, r.err, bx_expr)
       ELSE BxDone("schema_reduce", r.data, "", schema_restore(r.data))

-----------------------------------------------------------------------------
(***************************************************************************)
(* SCHEMA VERSION COMMANDS (edb/pgsql/delta.py)                            *)
(*                                                                         *)
(* AlterSchemaVersion and AlterGlobalSchemaVersion emit the queries that   *)
(* serialize DDL.  The transactions that run them are modelled with what   *)
(* the backend does with these queries: a FOR UPDATE waits for the row     *)
(* lock and, once it has it, sees the committed row under READ COMMITTED   *)
(* and fails with a serialization error under REPEATABLE READ when the row *)
(* changed after the snapshot; the write of the database metadata takes    *)
(* the ShareUpdateExclusiveLock on the database until the commit.          *)
(* Versions are numbers: 0 is the initial one, transaction t writes t.     *)
(***************************************************************************)
MaxTxns == 2

Txns == 1 .. MaxTxns
VerModes == {"schema", "global-superuser", "global-polling"}
IsoLevels == {"read committed", "repeatable read"}

(* The mutation of AlterSchemaVersion.apply that reads without the lock.   *)
AlterSchemaVersion_apply_without_lock == <<"check">>

(* AlterSchemaVersion.apply: one query, the check under FOR UPDATE.        *)
AlterSchemaVersion_apply == <<"check_for_update">>

(* The mutation of AlterGlobalSchemaVersion.apply that takes no lock.      *)
AlterGlobalSchemaVersion_apply_without_lock(superuser_access) ==
    <<"check", "update_metadata">>

(* AlterGlobalSchemaVersion.apply: lock, check, UpdateMetadataSection.     *)
AlterGlobalSchemaVersion_apply(superuser_access) ==
    <<IF superuser_access THEN "lock_for_update" ELSE "poll_lock",
      "check", "update_metadata">>

(* What a transaction runs: the operations of the command and, for the     *)
(* schema version, the write of the new version by the reflection layer.   *)
pgops_of(mode) ==
    IF mode = "schema"
    THEN AlterSchemaVersion_apply \o <<"reflect_version">>
    ELSE AlterGlobalSchemaVersion_apply(mode = "global-superuser")

NoTxn == [status |-> "idle", pc |-> 1, expected |-> 0, snapshot |-> 0,
          wrote |-> FALSE, error |-> ""]

VerIdle ==
    /\ gv_mode = "schema"
    /\ gv_iso = "read committed"
    /\ gv_stored = 0
    /\ gv_rowlock = 0
    /\ gv_objlock = 0
    /\ gv_txn = [t \in Txns |-> NoTxn]

InitVer ==
    /\ gv_mode \in VerModes
    /\ gv_iso \in IsoLevels
    /\ gv_stored = 0
    /\ gv_rowlock = 0
    /\ gv_objlock = 0
    /\ gv_txn = [t \in Txns |-> NoTxn]

Running(t) == gv_txn[t].status = "running"

NextOp(t) ==
    IF Running(t) /\ gv_txn[t].pc <= Len(pgops_of(gv_mode))
    THEN pgops_of(gv_mode)[gv_txn[t].pc]
    ELSE "none"

Released(lock, t) == IF lock = t THEN 0 ELSE lock

(* The query raised: the transaction is rolled back and its locks go.      *)
GvRaise(t, error) ==
    /\ gv_txn' = [gv_txn EXCEPT ![t].status = "failed", ![t].error = error,
                                ![t].wrote = FALSE]
    /\ gv_rowlock' = Released(gv_rowlock, t)
    /\ gv_objlock' = Released(gv_objlock, t)
    /\ UNCHANGED <<gv_mode, gv_iso, gv_stored>>

GvAdvance(t) == gv_txn' = [gv_txn EXCEPT ![t].pc = @ + 1]

(* What a plain SELECT of the version returns.                             *)
ReadVersion(t) ==
    IF gv_iso = "read committed" THEN gv_stored ELSE gv_txn[t].snapshot

(* raise_on_not_null(NULLIF(version, expected), 'serialization_failure')   *)
raise_on_mismatch(version, expected_ver) ==
    IF version = expected_ver THEN "" ELSE "serialization_failure"

(* A delta is built against the committed version and its transaction      *)
(* begins.                                                                 *)
GvBuild(t) ==
    /\ gv_txn[t].status = "idle"
    /\ gv_txn' = [gv_txn EXCEPT ![t].status = "running",
                                ![t].expected = gv_stored,
                                ![t].snapshot = gv_stored]
    /\ UNCHANGED <<gv_mode, gv_iso, gv_stored, gv_rowlock, gv_objlock>>

(* SELECT ... FOR UPDATE on a row: waits while another holds the lock.     *)
LockRow(t) ==
    IF gv_iso = "repeatable read" /\ gv_stored # gv_txn[t].snapshot
    THEN "serialization_failure"
    ELSE ""

(* The check of AlterSchemaVersion: the version read FOR UPDATE.           *)
GvCheckForUpdate(t) ==
    /\ NextOp(t) = "check_for_update"
    /\ gv_rowlock \in {0, t}
    /\ IF LockRow(t) # "" THEN GvRaise(t, LockRow(t))
       ELSE IF raise_on_mismatch(gv_stored, gv_txn[t].expected) # ""
       THEN GvRaise(t, raise_on_mismatch(gv_stored, gv_txn[t].expected))
       ELSE /\ GvAdvance(t)
            /\ gv_rowlock' = t
            /\ UNCHANGED <<gv_mode, gv_iso, gv_stored, gv_objlock>>

(* The lock of AlterGlobalSchemaVersion with superuser access: the row of  *)
(* pg_shdescription that holds the metadata of the template database.      *)
GvLockForUpdate(t) ==
    /\ NextOp(t) = "lock_for_update"
    /\ gv_rowlock \in {0, t}
    /\ IF LockRow(t) # "" THEN GvRaise(t, LockRow(t))
       ELSE /\ GvAdvance(t)
            /\ gv_rowlock' = t
            /\ UNCHANGED <<gv_mode, gv_iso, gv_stored, gv_objlock>>

(* Without superuser access: raise when pg_locks shows the lock on the     *)
(* template database granted to another backend.                           *)
GvPollLock(t) ==
    /\ NextOp(t) = "poll_lock"
    /\ IF gv_objlock \notin {0, t} THEN GvRaise(t, "serialization_failure")
       ELSE /\ GvAdvance(t)
            /\ UNCHANGED <<gv_mode, gv_iso, gv_stored, gv_rowlock,
                           gv_objlock>>

(* The check of the stored version against the expected one.               *)
GvCheck(t) ==
    /\ NextOp(t) = "check"
    /\ IF raise_on_mismatch(ReadVersion(t), gv_txn[t].expected) # ""
       THEN GvRaise(t, raise_on_mismatch(ReadVersion(t), gv_txn[t].expected))
       ELSE /\ GvAdvance(t)
            /\ UNCHANGED <<gv_mode, gv_iso, gv_stored, gv_rowlock,
                           gv_objlock>>

(* UpdateMetadataSection on the template database: waits for the lock on   *)
(* the database and for the row, and holds both until the commit.          *)
GvUpdateMetadata(t) ==
    /\ NextOp(t) = "update_metadata"
    /\ gv_objlock \in {0, t}
    /\ gv_rowlock \in {0, t}
    /\ gv_txn' = [gv_txn EXCEPT ![t].pc = @ + 1, ![t].wrote = TRUE]
    /\ gv_objlock' = t
    /\ gv_rowlock' = t
    /\ UNCHANGED <<gv_mode, gv_iso, gv_stored>>

(* The new schema version is written to its row.                           *)
GvReflectVersion(t) ==
    /\ NextOp(t) = "reflect_version"
    /\ gv_rowlock \in {0, t}
    /\ IF LockRow(t) # "" THEN GvRaise(t, LockRow(t))
       ELSE /\ gv_txn' = [gv_txn EXCEPT ![t].pc = @ + 1, ![t].wrote = TRUE]
            /\ gv_rowlock' = t
            /\ UNCHANGED <<gv_mode, gv_iso, gv_stored, gv_objlock>>

GvCommit(t) ==
    /\ Running(t)
    /\ gv_txn[t].pc > Len(pgops_of(gv_mode))
    /\ gv_txn' = [gv_txn EXCEPT ![t].status = "committed"]
    /\ gv_stored' = IF gv_txn[t].wrote THEN t ELSE gv_stored
    /\ gv_rowlock' = Released(gv_rowlock, t)
    /\ gv_objlock' = Released(gv_objlock, t)
    /\ UNCHANGED <<gv_mode, gv_iso>>

-----------------------------------------------------------------------------
(***************************************************************************)
(* POINTER COMMANDS AGAINST THE VIEWS OF THE BACKEND (edb/pgsql/delta.py)  *)
(*                                                                         *)
(* One command on a pointer of the type that owns it: its deletion, a      *)
(* single-to-multi or multi-to-single change of its cardinality, or a      *)
(* change of its type.  The operations it emits are then run one by one    *)
(* against the inheritance views of the backend.  A view is the union of   *)
(* its source's table and the tables of the descendants, projected on the  *)
(* columns of the source's pointers.                                       *)
(***************************************************************************)

(* Who owns a pointer and how it is stored; the descendants inherit it.    *)
Owners ==
    {[t |-> "", card |-> "none"]}
        \cup [t : ObjTypes, card : {"single", "multi"}]

schema_of(own) ==
    [t \in ObjTypes |->
        [q \in PtrNames |->
            IF own[q].t # "" /\ (t = own[q].t \/ t \in Descendants(own[q].t))
            THEN own[q].card ELSE "none"]]

Schemas == {schema_of(own) : own \in [PtrNames -> Owners]}

owns(ptrs, t, p) ==
    /\ ptrs[t][p] # "none"
    /\ \A a \in Range(get_ancestors(t)) : ptrs[a][p] = "none"

(* obj.descendants(schema) that have a table.                              *)
obj_descendants(obj, ptrs) ==
    IF obj.p = ""
    THEN {TypeObj(d) : d \in Descendants(obj.t)}
    ELSE {PtrObj(d, obj.p) :
             d \in {e \in Descendants(obj.t) : ptrs[e][obj.p] = "multi"}}

(* _get_select_from: a table is part of the union when it has every        *)
(* pointer the view projects.                                              *)
get_select_from(obj, ptrs, cols) ==
    obj.p # "" \/ \A q \in cols : ptrs[obj.t][q] # "none"

(* The tables of get_inhview: the source and its descendants, less the     *)
(* excluded children and those _get_select_from leaves out.                *)
inhview_tables(obj, ptrs, cols, exclude_children) ==
    {obj} \cup {child \in obj_descendants(obj, ptrs) \ exclude_children :
                   get_select_from(child, ptrs, cols)}

(* An emitted operation with, for a view, the tables it selects from.      *)
WithTables(ops, ptrs, exclude_children) ==
    [i \in DOMAIN ops |->
        [op |-> ops[i].op, obj |-> ops[i].obj, arg |-> ops[i].arg,
         cols |-> ops[i].cols, why |-> ops[i].why,
         tables |-> IF ops[i].op = "CreateView"
                    THEN inhview_tables(ops[i].obj, ptrs, ops[i].cols,
                                        exclude_children)
                    ELSE {}]]

(* The inputs of a type change besides the pointer itself.                 *)
TypeChangeInputs ==
    [required : BOOLEAN,        \* pointer.get_required(schema)
     nullable : BOOLEAN,        \* the conversion can return no value
     cast_expr : BOOLEAN,       \* an explicit USING expression was given
     supertype : BOOLEAN,       \* the old target is a subtype of the new
     created : BOOLEAN,         \* the source is being created
     aux_table : BOOLEAN,       \* a single link with link properties
     constraints : BOOLEAN,     \* a constraint refers to the pointer
     local_table_only : BOOLEAN]

(* _compile_conversion_expr: whether the SQL expression is trivial.        *)
expr_is_trivial(is_lnk, is_multi, a) ==
    LET can_translate_to_sql_value_expr == FALSE IN
    /\ can_translate_to_sql_value_expr
    /\ ~is_lnk
    /\ a.local_table_only
    /\ ~is_multi
    /\ (~a.required \/ ~a.nullable)

(* The mutation of need_temp_col that never asks for the column.           *)
need_temp_col_never(is_multi, changing_col_type, sql_expr_is_trivial, a) ==
    FALSE

need_temp_col(is_multi, changing_col_type, sql_expr_is_trivial, a) ==
    \/ is_multi /\ a.nullable
    \/ changing_col_type /\ ~sql_expr_is_trivial

(* _drop_constraints / _recreate_constraints                               *)
drop_constraints(obj, a) ==
    IF a.constraints
    THEN <<VOp("DropConstraint", obj, "", {}, "type")>> ELSE <<>>

recreate_constraints(obj, a) ==
    IF a.constraints
    THEN <<VOp("CreateConstraint", obj, "", {}, "type")>> ELSE <<>>

(* _alter_pointer_type.  The ALTER TABLE that is added last holds the      *)
(* change of the column type and then the drop of the temporary column.    *)
alter_pointer_type(t, p, ptrs, a) ==
    LET is_lnk == is_link(p)
        is_multi == ptrs[t][p] = "multi"
        changing_col_type == ~is_lnk
        source == IF is_multi THEN PtrObj(t, p) ELSE TypeObj(t)
        column == IF is_multi THEN "target" ELSE p
        sql_expr_is_trivial == expr_is_trivial(is_lnk, is_multi, a)
        temp == need_temp_col(is_multi, changing_col_type,
                              sql_expr_is_trivial, a)
        aux == is_lnk /\ ~is_multi /\ a.aux_table
    IN
    IF is_lnk /\ a.created THEN <<>>
    ELSE IF is_lnk /\ ~a.cast_expr /\ a.supertype THEN <<>>
    ELSE
      WithTables(drop_constraints(source, a), ptrs, {})
      \o (IF changing_col_type
          THEN WithTables(drop_inhview(source, FALSE, "type"), ptrs, {})
               \o WithTables(alter_ancestor_inhviews(source, ptrs, "type"),
                             ptrs, {source})
          ELSE <<>>)
      \o WithTables(
          (IF ~sql_expr_is_trivial
           THEN (IF temp
                 THEN <<VOp("AddColumn", source, "temp", {}, "type")>>
                 ELSE <<>>)
                \o <<VOp("Query", source, "UPDATE using", {}, "type")>>
           ELSE <<>>)
          \o (IF is_multi
              THEN <<VOp("Query", source,
                         IF a.required THEN "DELETE nulls or raise"
                         ELSE "DELETE nulls", {}, "type")>>
              ELSE IF aux
              THEN (IF a.nullable /\ ~a.required
                    THEN <<VOp("Query", PtrObj(t, p), "DELETE aux", {},
                               "type")>>
                    ELSE <<>>)
                   \o <<VOp("Query", PtrObj(t, p), "UPDATE aux", {}, "type")>>
              ELSE <<>>)
          \o (IF ~changing_col_type /\ temp
              THEN <<VOp("Query", source, "UPDATE move", {}, "type")>>
              ELSE <<>>)
          \o (IF changing_col_type
              THEN <<VOp("AlterColumnType", source, column, {}, "type")>>
              ELSE <<>>)
          \o (IF temp
              THEN <<VOp("DropColumn", source, "temp", {}, "type")>>
              ELSE <<>>)
          \o recreate_constraints(source, a),
          ptrs, {})
      \o (IF changing_col_type
          THEN WithTables(create_inhview(source, ptrs, {}, TRUE, "type"),
                          ptrs, {})
          ELSE <<>>)

(* The sources that have an inheritance view: the types and the pointers   *)
(* stored in a table of their own.                                         *)
view_sources(ptrs) ==
    {TypeObj(t) : t \in ObjTypes}
        \cup {obj \in {PtrObj(t, q) : t \in ObjTypes, q \in PtrNames} :
                 ptrs[obj.t][obj.p] = "multi"}

(* The views of a backend that holds the schema.                           *)
views_of(ptrs) ==
    {[obj |-> obj, cols |-> get_inhview(obj, ptrs, {}),
      tables |-> inhview_tables(obj, ptrs, get_inhview(obj, ptrs, {}), {})] :
        obj \in view_sources(ptrs)}

ViewOf(views, obj) == {v \in views : v.obj = obj}

(* The backend runs a view operation: CREATE VIEW needs the view not to    *)
(* exist, CREATE OR REPLACE VIEW cannot take a column away, and a failed   *)
(* operation leaves the views as they are.                                 *)
run_view_op(views, o) ==
    LET v == [obj |-> o.obj, cols |-> o.cols, tables |-> o.tables] IN
    CASE o.op = "DropView" -> views \ ViewOf(views, o.obj)
      [] o.op = "DropTable" -> views \ ViewOf(views, o.obj)
      [] o.op = "CreateView" /\ o.arg = "" ->
            IF ViewOf(views, o.obj) = {} THEN views \cup {v} ELSE views
      [] o.op = "CreateView" /\ o.arg = "or_replace" ->
            IF \A old \in ViewOf(views, o.obj) : old.cols \subseteq o.cols
            THEN (views \ ViewOf(views, o.obj)) \cup {v}
            ELSE views
      [] OTHER -> views

(* The views that project the column an operation works on.                *)
projecting(views, o) ==
    IF o.op \in {"DropColumn", "AlterColumnType"}
    THEN {v.obj : v \in {w \in views : o.obj \in w.tables /\ o.arg \in w.cols}}
    ELSE {}

NoPtrCmd == [kind |-> "none", t |-> "", p |-> ""]

PtrIdle ==
    /\ pa_ptrs = [t \in ObjTypes |-> NoPointers]
    /\ pa_cmd = NoPtrCmd
    /\ pa_pgops = <<>>
    /\ pa_pc = 0
    /\ pa_views = {}
    /\ pa_log = <<>>

(* A backend that holds a schema in which every pointer has an owner and   *)
(* is inherited by the owner's descendants.                                *)
InitPtr ==
    /\ pa_ptrs \in Schemas
    /\ pa_cmd = NoPtrCmd
    /\ pa_pgops = <<>>
    /\ pa_pc = 0
    /\ pa_views = views_of(pa_ptrs)
    /\ pa_log = <<>>

PaEmit(cmd, ops) ==
    /\ pa_cmd = NoPtrCmd
    /\ pa_cmd' = cmd
    /\ pa_pgops' = ops
    /\ UNCHANGED <<pa_ptrs, pa_pc, pa_views, pa_log>>

(* DeleteLink / DeleteProperty under an AlterObjectType or a               *)
(* DeleteObjectType of the source.                                         *)
PaDeletePointer(t, p, parent_kind) ==
    /\ owns(pa_ptrs, t, p)
    /\ PaEmit([kind |-> "delete", t |-> t, p |-> p, parent |-> parent_kind],
              WithTables(delete_pointer(t, p, pa_ptrs, parent_kind),
                         pa_ptrs, {}))

(* AlterLink / AlterProperty changing the cardinality.                     *)
PaAlterPointerCardinality(t, p) ==
    /\ owns(pa_ptrs, t, p)
    /\ LET new == [pa_ptrs EXCEPT ![t][p] =
                      IF @ = "single" THEN "multi" ELSE "single"]
       IN  PaEmit([kind |-> "cardinality", t |-> t, p |-> p,
                   was |-> pa_ptrs[t][p]],
                  WithTables(alter_pointer_cardinality(t, p, pa_ptrs, new),
                             new, {}))

(* AlterLink / AlterProperty changing the target type; the inputs the      *)
(* handler never reads for the pointer at hand are left at FALSE.          *)
PaAlterPointerType(t, p, a) ==
    /\ owns(pa_ptrs, t, p)
    /\ a.aux_table => is_link(p) /\ pa_ptrs[t][p] = "single"
    /\ ~is_link(p) => ~a.created /\ ~a.supertype
    /\ ~a.local_table_only
    /\ PaEmit([kind |-> "type", t |-> t, p |-> p, inputs |-> a,
               was |-> pa_ptrs[t][p]],
              alter_pointer_type(t, p, pa_ptrs, a))

(* The backend runs the next operation of the command.                     *)
PaRun ==
    /\ pa_pc < Len(pa_pgops)
    /\ pa_pc' = pa_pc + 1
    /\ pa_log' = Append(pa_log, projecting(pa_views, pa_pgops[pa_pc + 1]))
    /\ pa_views' = run_view_op(pa_views, pa_pgops[pa_pc + 1])
    /\ UNCHANGED <<pa_ptrs, pa_cmd, pa_pgops>>

-----------------------------------------------------------------------------
(***************************************************************************)
(* Specifications, one per subsystem                                       *)
(***************************************************************************)

EnumSpecInit == InitEnum /\ InferIdle /\ ErrIdle /\ CmdIdle /\ ViewIdle
    /\ TrigIdle
    /\ StartIdle /\ WatchIdle /\ ExprIdle /\ ClusterIdle /\ BoxIdle /\ VerIdle /\ PtrIdle

NextEnum ==
    \/ EnAlterBegin /\ UNCHANGED exceptEnum
    \/ EnAlterInnards /\ UNCHANGED exceptEnum
    \/ EnAlterFinalize /\ UNCHANGED exceptEnum

SpecEnum == EnumSpecInit /\ [][NextEnum]_vars

InferSpecInit == InitInfer /\ EnumIdle /\ ErrIdle /\ CmdIdle /\ ViewIdle
    /\ TrigIdle
    /\ StartIdle /\ WatchIdle /\ ExprIdle /\ ClusterIdle /\ BoxIdle /\ VerIdle /\ PtrIdle

NextInfer ==
    \/ CallInferCommonType /\ UNCHANGED exceptInfer
    \/ CallInferType /\ UNCHANGED exceptInfer

SpecInfer == InferSpecInit /\ [][NextInfer]_vars

ErrSpecInit == InitErr /\ InferIdle /\ EnumIdle /\ CmdIdle /\ ViewIdle
    /\ TrigIdle
    /\ StartIdle /\ WatchIdle /\ ExprIdle /\ ClusterIdle /\ BoxIdle /\ VerIdle /\ PtrIdle

NextErr ==
    \/ StaticPass /\ UNCHANGED exceptErr
    \/ SchemaPass /\ UNCHANGED exceptErr

SpecErr == ErrSpecInit /\ [][NextErr]_vars

CmdSpecInit == InitCmd /\ InferIdle /\ EnumIdle /\ ErrIdle /\ ViewIdle
    /\ TrigIdle
    /\ StartIdle /\ WatchIdle /\ ExprIdle /\ ClusterIdle /\ BoxIdle /\ VerIdle /\ PtrIdle

NextCmd ==
    \/ CmdBegin /\ UNCHANGED exceptCmd
    \/ CmdInnards /\ UNCHANGED exceptCmd
    \/ CmdCaused /\ UNCHANGED exceptCmd
    \/ CmdGenerate /\ UNCHANGED exceptCmd

SpecCmd == CmdSpecInit /\ [][NextCmd]_vars

ViewSpecInit == InitView /\ InferIdle /\ EnumIdle /\ ErrIdle /\ CmdIdle
    /\ TrigIdle
    /\ StartIdle /\ WatchIdle /\ ExprIdle /\ ClusterIdle /\ BoxIdle /\ VerIdle /\ PtrIdle

NextView ==
    \/ \E t \in ObjTypes :
          CreateObjectTypeBegin(t)
              /\ UNCHANGED exceptView
    \/ \E t \in ObjTypes, kind \in {"alter", "delete"} :
          AlterOrDeleteObjectTypeBegin(t, kind)
              /\ UNCHANGED exceptView
    \/ \E q \in PtrNames, card \in {"single", "multi"} :
          CreatePointer(q, card)
              /\ UNCHANGED exceptView
    \/ \E q \in PtrNames :
          DeletePointer(q)
              /\ UNCHANGED exceptView
    \/ \E q \in PtrNames :
          AlterPointerCardinality(q)
              /\ UNCHANGED exceptView
    \/ CreateOrAlterObjectTypeEnd
          /\ UNCHANGED exceptView
    \/ DeleteObjectTypeEnd
          /\ UNCHANGED exceptView

SpecView == ViewSpecInit /\ [][NextView]_vars

TrigSpecInit ==
    InitTrig /\ InferIdle /\ EnumIdle /\ ErrIdle /\ CmdIdle /\ ViewIdle
    /\ StartIdle /\ WatchIdle /\ ExprIdle /\ ClusterIdle /\ BoxIdle /\ VerIdle /\ PtrIdle

NextTrig ==
    \/ \E l \in TrLinks, attrs \in LinkAttrs :
          TrCreateLink(l, attrs)
              /\ UNCHANGED exceptTrig
    \/ \E l \in TrLinks, attrs \in LinkAttrs :
          TrAlterLink(l, attrs)
              /\ UNCHANGED exceptTrig
    \/ \E l \in TrLinks :
          TrDeleteLink(l)
              /\ UNCHANGED exceptTrig
    \/ TrRebaseObjectType
          /\ UNCHANGED exceptTrig
    \/ TrApply
          /\ UNCHANGED exceptTrig

SpecTrig == TrigSpecInit /\ [][NextTrig]_vars

StartSpecInit ==
    InitStart /\ InferIdle /\ EnumIdle /\ ErrIdle /\ CmdIdle /\ ViewIdle
    /\ TrigIdle /\ WatchIdle /\ ExprIdle /\ ClusterIdle /\ BoxIdle /\ VerIdle /\ PtrIdle

NextStart ==
    \/ StSpawn /\ UNCHANGED exceptStart
    \/ StTick /\ UNCHANGED exceptStart
    \/ \E line \in StatusLines : StReadLine(line) /\ UNCHANGED exceptStart
    \/ StReadTimeout /\ UNCHANGED exceptStart
    \/ \E returncode \in {0, 1} :
          StAdminQuery(returncode) /\ UNCHANGED exceptStart

SpecStart == StartSpecInit /\ [][NextStart]_vars

WatchSpecInit ==
    InitWatch /\ InferIdle /\ EnumIdle /\ ErrIdle /\ CmdIdle /\ ViewIdle
    /\ TrigIdle /\ StartIdle /\ ExprIdle /\ ClusterIdle /\ BoxIdle /\ VerIdle /\ PtrIdle

NextWatch ==
    \/ \E pidfile \in PidFiles : WdPidfile(pidfile) /\ UNCHANGED exceptWatch
    \/ \E outcome \in ConnectOutcomes :
          WdRetry(outcome) /\ UNCHANGED exceptWatch
    \/ \E outcome \in ConnectOutcomes :
          WdBreak(outcome) /\ UNCHANGED exceptWatch
    \/ WdExhausted /\ UNCHANGED exceptWatch

SpecWatch == WatchSpecInit /\ [][NextWatch]_vars

ExprSpecInit ==
    InitExpr /\ EnumIdle /\ ErrIdle /\ CmdIdle /\ ViewIdle /\ TrigIdle
    /\ StartIdle /\ WatchIdle /\ ClusterIdle /\ BoxIdle /\ VerIdle /\ PtrIdle

NextExpr ==
    \/ ExCallInferExpr /\ UNCHANGED exceptExpr
    \/ ExCallInferLeaf /\ UNCHANGED exceptExpr
    \/ ExCallInferBinopArgs /\ UNCHANGED exceptExpr
    \/ ExCallInferCommonType /\ UNCHANGED exceptExpr

SpecExpr == ExprSpecInit /\ [][NextExpr]_vars

ClusterSpecInit ==
    InitCluster /\ InferIdle /\ EnumIdle /\ ErrIdle /\ CmdIdle /\ ViewIdle
    /\ TrigIdle /\ StartIdle /\ WatchIdle /\ ExprIdle /\ BoxIdle /\ VerIdle /\ PtrIdle

NextCluster ==
    \/ CbGetStatus /\ UNCHANGED exceptCluster
    \/ CbInit /\ UNCHANGED exceptCluster
    \/ CbPgStart /\ UNCHANGED exceptCluster
    \/ CbPgInit /\ UNCHANGED exceptCluster
    \/ CbPgStop /\ UNCHANGED exceptCluster

SpecCluster == ClusterSpecInit /\ [][NextCluster]_vars

BoxSpecInit ==
    InitBox /\ InferIdle /\ EnumIdle /\ ErrIdle /\ CmdIdle /\ ViewIdle
    /\ TrigIdle /\ StartIdle /\ WatchIdle /\ ExprIdle /\ ClusterIdle /\ VerIdle /\ PtrIdle

NextBox ==
    \/ BxQlast /\ UNCHANGED exceptBox
    \/ BxCompiled /\ UNCHANGED exceptBox
    \/ BxNotCompiled /\ UNCHANGED exceptBox
    \/ BxFromExpr /\ UNCHANGED exceptBox
    \/ BxPickle /\ UNCHANGED exceptBox
    \/ BxSchemaReduce /\ UNCHANGED exceptBox

SpecBox == BoxSpecInit /\ [][NextBox]_vars

VerSpecInit ==
    InitVer /\ InferIdle /\ EnumIdle /\ ErrIdle /\ CmdIdle /\ ViewIdle
    /\ TrigIdle /\ StartIdle /\ WatchIdle /\ ExprIdle /\ ClusterIdle
    /\ BoxIdle /\ PtrIdle

NextVer ==
    \/ \E t \in Txns : GvBuild(t) /\ UNCHANGED exceptVer
    \/ \E t \in Txns : GvCheckForUpdate(t) /\ UNCHANGED exceptVer
    \/ \E t \in Txns : GvLockForUpdate(t) /\ UNCHANGED exceptVer
    \/ \E t \in Txns : GvPollLock(t) /\ UNCHANGED exceptVer
    \/ \E t \in Txns : GvCheck(t) /\ UNCHANGED exceptVer
    \/ \E t \in Txns : GvUpdateMetadata(t) /\ UNCHANGED exceptVer
    \/ \E t \in Txns : GvReflectVersion(t) /\ UNCHANGED exceptVer
    \/ \E t \in Txns : GvCommit(t) /\ UNCHANGED exceptVer

SpecVer == VerSpecInit /\ [][NextVer]_vars

PtrSpecInit ==
    InitPtr /\ InferIdle /\ EnumIdle /\ ErrIdle /\ CmdIdle /\ ViewIdle
    /\ TrigIdle /\ StartIdle /\ WatchIdle /\ ExprIdle /\ ClusterIdle
    /\ BoxIdle /\ VerIdle

NextPtr ==
    \/ \E t \in ObjTypes, p \in PtrNames, k \in {"alter", "delete"} :
          PaDeletePointer(t, p, k) /\ UNCHANGED exceptPtr
    \/ \E t \in ObjTypes, p \in PtrNames :
          PaAlterPointerCardinality(t, p) /\ UNCHANGED exceptPtr
    \/ \E t \in ObjTypes, p \in PtrNames, a \in TypeChangeInputs :
          PaAlterPointerType(t, p, a) /\ UNCHANGED exceptPtr
    \/ PaRun /\ UNCHANGED exceptPtr

SpecPtr == PtrSpecInit /\ [][NextPtr]_vars

-----------------------------------------------------------------------------
(* Properties of the type inference engine                                 *)

CommonTypeReturned ==
    ic_call.fn = "common" /\ ic_call.err = "" /\ ic_call.ret # NoneT

(* C1 (as stated): after _infer_common_type returns a common type, every   *)
(* argument that is an EmptySet node has env.set_types equal to the        *)
(* returned type.                                                          *)
C1_EveryEmptySetArgHasReturnedType ==
    CommonTypeReturned =>
        \A i \in DOMAIN ic_call.args :
            IsEmptySet(ic_call.args[i])
                => set_types[ic_call.args[i]] = ic_call.ret

(* C1 (amended): after _infer_common_type returns a common type, every     *)
(* argument that is an EmptySet node and had no type recorded in           *)
(* env.set_types when the call started has env.set_types equal to the      *)
(* returned type; an EmptySet argument that already had a type keeps it.   *)
C1_UntypedEmptySetArgsGetReturnedType ==
    CommonTypeReturned =>
        \A i \in DOMAIN ic_call.args :
            IsEmptySet(ic_call.args[i]) =>
                set_types[ic_call.args[i]] =
                    IF ic_call.pre[ic_call.args[i]] = NoneT
                    THEN ic_call.ret
                    ELSE ic_call.pre[ic_call.args[i]]

C1_Witness ==
    /\ CommonTypeReturned
    /\ \E i \in DOMAIN ic_call.args :
          /\ IsEmptySet(ic_call.args[i])
          /\ ic_call.pre[ic_call.args[i]] = NoneT
          /\ set_types[ic_call.args[i]] = ic_call.ret

-----------------------------------------------------------------------------
(* Properties of the enum evolution                                        *)

RECURSIVE IsSubseq(_, _)
IsSubseq(a, b) ==
    IF a = <<>> THEN TRUE
    ELSE IF b = <<>> THEN FALSE
    ELSE IF Head(a) = Head(b) THEN IsSubseq(Tail(a), Tail(b))
    ELSE IsSubseq(a, Tail(b))

HasOp(pgops, o) == \E i \in DOMAIN pgops : pgops[i].op = o

EnumChanged == en_rebase /\ en_old # <<>> /\ en_new # en_old

(* C2 (as stated): when enum values are only added, without reordering or  *)
(* removing existing ones, the change is made in place: the operations     *)
(* contain no DropEnum and one ADD VALUE per new value, placed BEFORE the   *)
(* old value that follows it (none when it comes last).                    *)
C2_AddedValuesHandledInPlace ==
    (en_pc # "begin" /\ EnumChanged /\ IsSubseq(en_old, en_new)) =>
        /\ ~HasOp(en_pgops, "DropEnum")
        /\ ~HasOp(en_pgops, "CreateEnum")
        /\ \A k \in DOMAIN en_new :
              en_new[k] \notin Range(en_old) =>
                  \E i \in DOMAIN en_pgops :
                      /\ en_pgops[i].op = "AlterEnumAddValue"
                      /\ en_pgops[i].a = en_new[k]

EnAffected == {p \in EnProps : en_refs[p] # "none"}

(* C3: when the values are reordered or some are removed, the enum is      *)
(* dropped and recreated with the new list, and only between the rewrite   *)
(* of every affected property's target to the replacement type and the     *)
(* restoration of the original targets: no DropEnum is emitted while a     *)
(* property still uses the enum.                                           *)
C3_RecreateBetweenRewriteAndRestore ==
    /\ (en_pc # "begin" /\ EnumChanged /\ ~IsSubseq(en_old, en_new))
          => HasOp(en_pgops, "DropEnum")
    /\ \A i \in DOMAIN en_pgops :
          en_pgops[i].op = "DropEnum" =>
              /\ i < Len(en_pgops)
              /\ en_pgops[i + 1] = CreateEnumOp(en_new)
              /\ \A p \in EnAffected :
                    /\ en_target[p] = (IF en_pc = "done" THEN "orig" ELSE "repl")
                    /\ \E j \in 1..(i - 1) :
                          en_pgops[j] = Op("SetPropertyTarget", p, "repl")
                    /\ \A j \in 1..(i + 1) :
                          en_pgops[j] # Op("SetPropertyTarget", p, "orig")
                    /\ en_pc = "done" =>
                          \E j \in (i + 2)..Len(en_pgops) :
                              en_pgops[j] = Op("SetPropertyTarget", p, "orig")

C3_Witness ==
    /\ en_pc = "done"
    /\ en_old = <<"A", "C">>
    /\ en_new = <<"C", "A">>
    /\ en_refs["p1"] = "direct"
    /\ en_refs["p2"] = "array"
    /\ HasOp(en_pgops, "DropEnum")


-----------------------------------------------------------------------------
(* Properties of the backend error translation                             *)

FirstPassDone == er_pc # "static"

(* The error class the first pass gives the four transaction and database  *)
(* codes.                                                                  *)
C9_ClassOf(code) ==
    CASE code = "40001" -> "TransactionSerializationError"
      [] code = "40P01" -> "TransactionDeadlockError"
      [] code = "3D000" -> "UnknownDatabaseError"
      [] code = "42P04" -> "DuplicateDatabaseDefinitionError"

C9_Codes == {"40001", "40P01", "3D000", "42P04"}

(* C9 (as stated): the schema-less translation maps 40001, 40P01, 3D000    *)
(* and 42P04 to their error classes whatever the other fields contain.     *)
C9_CodeDecidesWhateverOtherFields ==
    (FirstPassDone /\ er_fields.C \in C9_Codes) =>
        er_result.cls = C9_ClassOf(er_fields.C)

(* C9 (amended): the schema-less translation maps 40001, 40P01, 3D000 and  *)
(* 42P04 to their error classes, with the backend's message, whatever the  *)
(* message and the name fields contain, provided the detail field is       *)
(* absent, is not JSON, or is a JSON object without a recognised error     *)
(* code; a detail JSON with a recognised code decides the class instead,   *)
(* and a detail that starts with "{" but is not JSON makes the pass raise. *)
C9_CodeDecidesUnlessDetailCode ==
    (FirstPassDone /\ er_fields.C \in C9_Codes) =>
        er_result =
            CASE er_fields.D = "{malformed" -> Raised("JSONDecodeError")
              [] er_fields.D = "{code:known}" ->
                    Err("InvalidReferenceError", <<"$message">>)
              [] OTHER -> Err(C9_ClassOf(er_fields.C), <<"$message">>)

C9_Witness ==
    /\ er_pc = "done"
    /\ er_fields.C = "40P01"
    /\ er_fields.D = "{hint}"
    /\ er_fields.M = "cardinality"
    /\ er_fields.c # <<>>
    /\ er_result.cls = "TransactionDeadlockError"

C17_ClassOf(code) ==
    CASE code = "40001" -> "TransactionSerializationError"
      [] code = "40P01" -> "TransactionDeadlockError"
      [] code = "22012" -> "DivisionByZeroError"
      [] OTHER -> "NumericOutOfRangeError"

(* C17 (as stated): the first, schema-less pass resolves 40001, 40P01,     *)
(* 22012 and 22003 by itself: it never returns SchemaRequired for these    *)
(* codes, and 22003 gives NumericOutOfRangeError.                          *)
C17_FirstPassResolvesRangeOverflow ==
    (FirstPassDone /\ er_fields.C \in {"40001", "40P01", "22012", "22003"}) =>
        /\ er_pc # "schema"
        /\ er_result # SchemaRequired
        /\ er_fields.C = "22003" => er_result.cls = "NumericOutOfRangeError"

(* C17 (amended): when the detail carries no recognised error code, the    *)
(* first pass resolves 40001, 40P01 and 22012 (and the interval overflow   *)
(* 22015, as NumericOutOfRangeError) by itself with the backend's message; *)
(* for 22003 it returns SchemaRequired, and the second pass gives          *)
(* NumericOutOfRangeError with the translated message.                     *)
C17_RangeOverflowNeedsSchemaPass ==
    (FirstPassDone /\ er_fields.D \notin {"{malformed", "{code:known}"}) =>
        /\ er_fields.C \in {"40001", "40P01", "22012", "22015"} =>
              /\ er_pc = "done"
              /\ er_result = Err(C17_ClassOf(er_fields.C), <<"$message">>)
        /\ er_fields.C = "22003" =>
              er_result =
                  IF er_pc = "schema" THEN SchemaRequired
                  ELSE Err("NumericOutOfRangeError",
                           <<"$translated_message">>)

C17_Witness ==
    /\ er_pc = "done"
    /\ er_fields.C = "22003"
    /\ er_fields.D = "None"
    /\ er_result.cls = "NumericOutOfRangeError"

(* The first pass asked for the schema and the second pass has run.        *)
SecondPassRan ==
    er_pc = "done" /\ static_interpret_backend_error(er_fields) = SchemaRequired

C30_DomainErrors ==
    {"MissingRequiredError", "ConstraintViolationError", "InvalidValueError",
     "NumericOutOfRangeError", "InvalidLinkTargetError"}

C10_PointerOf(colname) ==
    IF "ptr1" \in Range(colname)
    THEN "property 'name' of object type 'default::T'"
    ELSE "link 'owner' of object type 'default::T'"

(* C10 (as stated): every 23502 is translated, after the two passes, into  *)
(* MissingRequiredError "missing value for required <pointer verbosename>". *)
C10_EveryNotNullIsMissingRequired ==
    (er_pc = "done" /\ er_fields.C = "23502") =>
        /\ er_result.cls = "MissingRequiredError"
        /\ Len(er_result.msg) = 2
        /\ er_result.msg[1] = "missing value for required "

(* C10 (amended): a 23502 whose detail carries no recognised error code is *)
(* translated, after the two passes, into MissingRequiredError "missing    *)
(* value for required <pointer verbosename>" exactly when it names a       *)
(* column (plain or "??"-prefixed); without a column name the result is    *)
(* InternalServerError with the backend's message, from the first pass     *)
(* when no table is named either and from the second pass otherwise.       *)
C10_NotNullWithColumnIsMissingRequired ==
    (er_pc = "done" /\ er_fields.C = "23502"
        /\ er_fields.D \notin {"{malformed", "{code:known}"}) =>
        er_result =
            IF er_fields.c # <<>>
            THEN Err("MissingRequiredError",
                     <<"missing value for required ",
                       C10_PointerOf(er_fields.c)>>)
            ELSE Err("InternalServerError", <<"$message">>)

C10_Witness ==
    /\ er_pc = "done"
    /\ er_fields.C = "23502"
    /\ er_fields.c = <<"??", "ptr1", "_", "x">>
    /\ er_fields.t = "None"
    /\ er_result = Err("MissingRequiredError",
                       <<"missing value for required ",
                         "property 'name' of object type 'default::T'">>)


-----------------------------------------------------------------------------
(* Properties of the operation buffer                                      *)

GroupRank(g) ==
    CASE g = "prerequisite" -> 1 [] g = "main" -> 2 [] g = "caused" -> 3

InDependencyOrder(a, b) ==
    \/ GroupRank(a.group) < GroupRank(b.group)
    \/ a.group = b.group /\ a.decl < b.decl

(* C6: the operations in a command's pgops buffer, and so the operations   *)
(* it generates, keep dependency order: those of prerequisite subcommands  *)
(* before those of main subcommands before those of caused subcommands,    *)
(* and within a group in declaration order; once the command has been      *)
(* applied every subcommand that is not a field update is in the buffer.   *)
C6_PgopsInDependencyOrder ==
    /\ \A i, j \in DOMAIN cm_pgops :
          i < j => InDependencyOrder(cm_pgops[i], cm_pgops[j])
    /\ cm_pc = "done" =>
          /\ Range(cm_pgops) = {op \in Range(cm_ops) : ~op.is_field_update}
          /\ \A i, j \in DOMAIN cm_block :
                i < j => InDependencyOrder(cm_ops[cm_block[i]],
                                           cm_ops[cm_block[j]])

C6_Witness ==
    /\ cm_pc = "done"
    /\ Len(cm_ops) = 3
    /\ cm_ops[1].group = "caused"
    /\ cm_ops[2].group = "main"
    /\ cm_ops[3].group = "prerequisite"
    /\ cm_block = <<3, 2, 1>>


-----------------------------------------------------------------------------
(* Properties of the inheritance views                                     *)

IsTableWork(o) ==
    o.op \in {"CreateTable", "DropTable", "AddColumn", "DropColumn",
              "CreateIndex"}

IsTypeView(o) == o.obj.p = "" /\ o.op \in {"DropView", "CreateView"}

CommandEnded(k) == k < vw_n.cmds \/ vw_cur = NoCommand

(* Positions of the operations of command k that satisfy a test.           *)
OpsOf(k, Test(_)) ==
    {i \in DOMAIN vw_ops : vw_ops[i].cmd = k /\ Test(vw_ops[i])}

ColumnCreated(k, t) ==
    OpsOf(k, LAMBDA o : o.op = "AddColumn" /\ o.why = "create"
                           /\ o.obj = TypeObj(t))

ColumnRemoved(k, t) ==
    OpsOf(k, LAMBDA o : o.op = "DropColumn" /\ o.obj = TypeObj(t))

C7_NoTableWorkAfterScheduledInDelta ==
    \A i, j \in DOMAIN vw_ops :
        (i < j /\ vw_ops[i].why = "scheduled") => ~IsTableWork(vw_ops[j])

(* C7 (amended): the scheduled inheritance-view operations of an object-   *)
(* type command come after all table, column and index operations of that  *)
(* command and its pointer subcommands; operations of later object-type    *)
(* commands of the same delta may follow them.                             *)
C7_NoTableWorkAfterScheduledInCommand ==
    \A i, j \in DOMAIN vw_ops :
        (i < j /\ vw_ops[i].why = "scheduled" /\ IsTableWork(vw_ops[j]))
            => vw_ops[j].cmd # vw_ops[i].cmd

C7_Witness ==
    /\ vw_cur = NoCommand
    /\ \E i, j, k \in DOMAIN vw_ops :
          /\ i < j /\ j < k
          /\ vw_ops[i].op = "AddColumn" /\ vw_ops[i].why = "create"
          /\ vw_ops[j].why = "scheduled" /\ vw_ops[j].cmd = vw_ops[i].cmd
          /\ IsTableWork(vw_ops[k]) /\ vw_ops[k].cmd # vw_ops[i].cmd

(* The sources recorded by command k: those a pointer stored as a column   *)
(* was created on.                                                         *)
Recorded(k) ==
    {vw_ops[i].obj : i \in OpsOf(k, LAMBDA o : o.op = "AddColumn"
                                                  /\ o.why = "create")}

Scheduled(k, op, arg, obj) ==
    OpsOf(k, LAMBDA o : o.why = "scheduled" /\ o.op = op /\ o.arg = arg
                           /\ o.obj = obj)

(* C8: at the end of an object-type command every source recorded during   *)
(* it has its inheritance view dropped and created again, once, and every  *)
(* strict ancestor of a recorded source has its view replaced in place,    *)
(* once, however many pointers were created on the source; nothing else is *)
(* scheduled.                                                              *)
C8_RecordedRecreatedAncestorsReplaced ==
    \A k \in 1..vw_n.cmds :
        CommandEnded(k) =>
            /\ \A src \in Recorded(k) :
                  /\ Cardinality(Scheduled(k, "DropView", "if_exists", src)) = 1
                  /\ Cardinality(Scheduled(k, "CreateView", "", src)) = 1
                  /\ \A i \in Scheduled(k, "DropView", "if_exists", src) :
                        i + 1 \in Scheduled(k, "CreateView", "", src)
                  /\ \A a \in Range(obj_ancestors(src, vw_ptrs)) \ Recorded(k) :
                        /\ Cardinality(
                              Scheduled(k, "CreateView", "or_replace", a)) = 1
                        /\ Scheduled(k, "DropView", "if_exists", a) = {}
                        /\ \A i \in Scheduled(k, "CreateView", "or_replace", a) :
                           \A j \in Scheduled(k, "CreateView", "", src) : j < i
            /\ \A i \in OpsOf(k, LAMBDA o : o.why = "scheduled") :
                  \E src \in Recorded(k) :
                      \/ vw_ops[i].obj = src
                      \/ vw_ops[i].obj \in Range(obj_ancestors(src, vw_ptrs))

C8_Witness ==
    /\ vw_cur = NoCommand
    /\ \E k \in 1..vw_n.cmds :
          /\ Recorded(k) = {TypeObj("Leaf")}
          /\ Cardinality(OpsOf(k, LAMBDA o : o.op = "AddColumn"
                                                /\ o.why = "create")) = 2
          /\ Cardinality(Scheduled(k, "DropView", "if_exists",
                                   TypeObj("Leaf"))) = 1
          /\ Scheduled(k, "CreateView", "or_replace", TypeObj("Base")) # {}


-----------------------------------------------------------------------------
(* Properties of the endpoint delete actions                               *)

DeltaApplied == tr_n.deltas > 0 /\ tr_n.cmds = 0

(* C5: after a whole delta has been applied, every object type that is the *)
(* target of a stored link whose on-target-delete policy is not Restrict   *)
(* has the DELETE trigger for that link, and its trigger function, in the  *)
(* backend.                                                                *)
C5_TargetsOfLinksHaveTriggers ==
    DeltaApplied =>
        \A l \in TrLinks :
            (tr_links[l] # NoLink /\ tr_links[l].policy # "Restrict") =>
                LET key == TriggerKey(tr_links[l].target, "target",
                                      tr_links[l].policy = "DeferredRestrict",
                                      tr_links[l].inline)
                IN  /\ key \in tr_db.triggers
                    /\ \E f \in tr_db.functions :
                          f.trig = key /\ l \in f.links


-----------------------------------------------------------------------------
(* Properties of starting the server                                       *)

ReadFailures == {"terminated", "invalid status line", "did not initialize"}

ReadFailed == st_pc = "failed" /\ st_error.msg \in ReadFailures

(* C11 (as stated): start returns normally only after a READY= line was    *)
(* read from the status channel; when the server terminates first, sends   *)
(* an unparsable status or stays silent, start fails with ClusterError     *)
(* within the timeout.                                                     *)
C11_ReturnsOnlyAfterReady ==
    /\ st_pc = "returned" => st_ready
    /\ ReadFailed => /\ st_error.cls = "ClusterError"
                     /\ st_clock <= Ticks(st_timeout)

(* C11 (amended): when the port is chosen by the server (port 0), start    *)
(* returns normally only after a READY= line was read; with a fixed port   *)
(* there is no status channel and start returns when the admin query       *)
(* succeeds.  When the server terminates first, sends an unparsable status *)
(* or stays silent, start fails with ClusterError within the timeout; in   *)
(* every case start ends at most one second after the timeout.             *)
C11_ReturnsOnlyAfterReadyOnAutoPort ==
    /\ (st_pc = "returned" /\ st_port = "auto") => st_ready
    /\ (st_pc = "returned" /\ st_port = "fixed") => ~st_ready /\ st_lines = 0
    /\ ReadFailed => /\ st_error.cls = "ClusterError"
                     /\ st_clock <= Ticks(st_timeout)
                     /\ st_port = "auto"
    /\ st_clock <= Ticks(st_timeout) + Ticks(1)

C11_Witness ==
    /\ st_pc = "returned"
    /\ st_port = "auto"
    /\ st_ready
    /\ st_lines > 0
    /\ st_clock > Ticks(st_timeout)


-----------------------------------------------------------------------------
(* Properties of the connection watchdog                                   *)

(* The watchdog never learnt an address: the pidfile was not ready at      *)
(* every attempt.                                                          *)
PidfileNeverReady == wd_addr = "None"

SleepsBackOff ==
    \A i \in DOMAIN wd_slept :
        wd_slept[i] = IF i = 1 THEN 1 ELSE Seconds(1)

(* C12 (as stated): while the pidfile is not ready the watchdog retries,   *)
(* sleeping 100 ms after the first attempt and 1 s after every later one,  *)
(* and gives up within the caller's timeout.                               *)
C12_GivesUpWithinTimeout ==
    /\ SleepsBackOff
    /\ (wd_result # "" /\ PidfileNeverReady) => wd_n = wd_timeout + 1
    /\ PidfileNeverReady => wd_elapsed <= Seconds(wd_timeout)

(* C12 (amended): while the pidfile is not ready the watchdog retries,     *)
(* sleeping 100 ms after the first attempt and 1 s after every later one;  *)
(* it makes timeout + 1 attempts, so that it gives up after the timeout    *)
(* plus 100 ms when the pidfile never becomes ready, and each attempt that *)
(* reaches the backend may add up to five seconds.                         *)
C12_GivesUpAfterTimeoutPlusOneAttempt ==
    /\ SleepsBackOff
    /\ wd_n <= wd_timeout + 1
    /\ (wd_result # "" /\ PidfileNeverReady) =>
          /\ wd_n = wd_timeout + 1
          /\ wd_result = "not-initialized"
          /\ wd_elapsed = Seconds(wd_timeout) + 1
    /\ PidfileNeverReady => wd_elapsed <= Seconds(wd_timeout) + 1
    /\ wd_elapsed <= Seconds(wd_timeout) + 1 + (wd_timeout + 1) * Seconds(5)

C12_Witness ==
    /\ wd_result = "not-initialized"
    /\ PidfileNeverReady
    /\ wd_pidfile = "stale"
    /\ Len(wd_slept) = MaxTimeout + 1

-----------------------------------------------------------------------------
(* Properties of slice, index and type-check inference                     *)

ExprCalled == ic_call.fn = "expr"
CalledNode == ic_call.args[1]

(* The type an operand had when the last call started.                     *)
TypeBefore(ir) ==
    IF ic_call.known[ir] # NoneT THEN ic_call.known[ir]
    ELSE IF ir \in SetNodes THEN ic_call.pre[ir]
    ELSE ir_typeref_to_type(ir)

(* C13: inferring SliceIndirection(expr: Array<int32>, start: an untyped   *)
(* EmptySet, stop: an int64 constant) succeeds with Array<int32>, and       *)
(* afterwards the EmptySet has the recorded type int64.                    *)
C13_SliceTypesEmptyStartAsInt64 ==
    (/\ ExprCalled
     /\ CalledNode = SliceIndirection("c_arr", "e1", "c_i64")
     /\ ic_call.pre["e1"] = NoneT)
        => /\ ic_call.err = ""
           /\ ic_call.ret = ArrayT("int32")
           /\ set_types["e1"] = int_t

(* The per-operand table of C14: the result for an operand type and an     *)
(* index type, NoneT where the claim says QueryError.                      *)
IndexTable(node_type, index_type) ==
    LET by_int == implicitly_castable_to(index_type, int_t)
        by_str == implicitly_castable_to(index_type, str_t)
    IN  CASE node_type = str_t /\ by_int -> str_t
          [] node_type = bytes_t /\ by_int -> bytes_t
          [] node_type = json_t /\ (by_int \/ by_str) -> json_t
          [] node_type.k = "array" /\ by_int -> Scalar(node_type.n)
          [] node_type = Scalar("anyscalar") /\ (by_int \/ by_str)
                -> PseudoT("anytype")
          [] OTHER -> NoneT

IndexCalled == ExprCalled /\ CalledNode.kind = "IndexIndirection"

IndexFollows(expected) ==
    IF expected = NoneT THEN ic_call.err # ""
    ELSE ic_call.err = "" /\ ic_call.ret = expected

(* C14 (as stated): an index indirection has the type the per-operand      *)
(* table gives (str, bytes, json, array element, anytype for anyscalar),   *)
(* and every other combination of operand and index raises.                *)
C14_IndexFollowsTableElseRaises ==
    IndexCalled =>
        IndexFollows(IndexTable(TypeBefore(CalledNode.a),
                                TypeBefore(CalledNode.b)))

(* C14 (amended): as the table, except that an anytype operand has type    *)
(* anytype with every index whose type is known; every combination that    *)
(* is in neither raises.                                                   *)
C14_IndexFollowsTableOrAnytypeOperand ==
    IndexCalled =>
        IndexFollows(
            IF /\ TypeBefore(CalledNode.a) = PseudoT("anytype")
               /\ TypeBefore(CalledNode.b) # NoneT
            THEN PseudoT("anytype")
            ELSE IndexTable(TypeBefore(CalledNode.a),
                            TypeBefore(CalledNode.b)))

C14_Witness ==
    /\ IndexCalled
    /\ CalledNode = IndexIndirection("c_any", "c_str")
    /\ ic_call.err = ""
    /\ ic_call.ret = PseudoT("anytype")


CommonCalled == ic_call.fn = "common"

(* The types of the arguments of the last _infer_common_type call that     *)
(* were not untyped EmptySets.                                             *)
NonEmptyArgTypes ==
    {TypeBefore(ic_call.args[i]) : i \in DOMAIN ic_call.args} \ {NoneT}

Partition(t) ==
    IF t.k = "array" THEN "collection"
    ELSE IF t.k = "scalar" THEN "scalar"
    ELSE "object"

MixedPartitions ==
    \E t, u \in NonEmptyArgTypes : Partition(t) # Partition(u)

(* C15: when the non-empty arguments of _infer_common_type have types from *)
(* more than one of the partitions object, scalar, collection, the call    *)
(* raises QueryError 'cannot determine common type' and amends no EmptySet *)
(* argument.                                                               *)
C15_MixedPartitionsRaiseAndAmendNothing ==
    (CommonCalled /\ MixedPartitions) =>
        /\ ic_call.err = "cannot determine common type"
        /\ set_types = ic_call.pre

C15_Witness ==
    /\ CommonCalled
    /\ MixedPartitions
    /\ \E i \in DOMAIN ic_call.args :
          IsEmptySet(ic_call.args[i]) /\ ic_call.pre[ic_call.args[i]] = NoneT
    /\ ic_call.err = "cannot determine common type"

InferCalled == ic_call.fn \in {"expr", "infer"}

(* What infer_type gives for the node of the last call on a fresh          *)
(* environment with the same schema.                                       *)
FreshResult ==
    IF ic_call.fn = "infer"
    THEN infer_type(CalledNode, FreshEnv)
    ELSE infer_type_expr(CalledNode, FreshEnv, {})

(* C16 (as stated): infer_type is a function of the node and the schema:   *)
(* every call returns the type the call on a fresh environment returns     *)
(* (and raises only if that one raises), whatever was inferred before it   *)
(* in the same environment.                                                *)
C16_ResultIndependentOfEarlierInference ==
    InferCalled =>
        /\ ic_call.ret = FreshResult.ret
        /\ (ic_call.err = "") = (FreshResult.err = "")

HasEmptySet(fn, ir) ==
    IF fn = "infer" THEN IsEmptySet(ir)
    ELSE IsEmptySet(ir.a) \/ IsEmptySet(ir.b) \/ IsEmptySet(ir.c)

(* The type env.inferred_types holds for a node, NoneT if none.            *)
Recorded16(fn, ir, leaves, exprs) ==
    IF fn = "infer" THEN leaves[ir]
    ELSE IF \E e \in exprs : e.node = ir
    THEN (CHOOSE e \in exprs : e.node = ir).type
    ELSE NoneT

(* C16 (amended): a call that returns a type records it, and a call on a   *)
(* node with a recorded type returns that type, so once infer_type has     *)
(* returned a type for a node every later call returns the same one; and   *)
(* for a node with no EmptySet operand the result is that of a fresh       *)
(* environment.                                                            *)
C16_RecordedTypeIsReturnedAgain ==
    [][(ic_call'.n = ic_call.n + 1 /\ ic_call'.fn \in {"expr", "infer"}) =>
        LET fn == ic_call'.fn
            ir == ic_call'.args[1]
            before == Recorded16(fn, ir, inferred_types, inferred_exprs)
            after == Recorded16(fn, ir, inferred_types', inferred_exprs')
            fresh == IF fn = "infer" THEN infer_type(ir, FreshEnv)
                     ELSE infer_type_expr(ir, FreshEnv, {})
        IN  /\ before # NoneT =>
                  ic_call'.err = "" /\ ic_call'.ret = before
            /\ ic_call'.err = "" => after = ic_call'.ret
            /\ ~HasEmptySet(fn, ir) =>
                  ic_call'.ret = fresh.ret /\ ic_call'.err = fresh.err]_vars

C16_Witness ==
    /\ ic_call.fn = "infer"
    /\ CalledNode = "e1"
    /\ ic_call.pre["e1"] # NoneT
    /\ ic_call.err = ""
    /\ ic_call.ret = ic_call.pre["e1"]
    /\ FreshResult.err # ""

BinopCalled == ic_call.fn = "binop"

(* C19: when exactly one operand of _infer_binop_args is an EmptySet its   *)
(* recorded type becomes the inferred type of the other operand, which is  *)
(* left unchanged; when both are EmptySets the call raises QueryError      *)
(* 'cannot determine the type of an empty set'.                            *)
C19_HarmonizerAmendsTheOneEmptySet ==
    BinopCalled =>
        LET left == ic_call.args[1]
            right == ic_call.args[2]
            Amended(es, other) ==
                /\ ic_call.err = ""
                /\ set_types[es] = TypeBefore(other)
                /\ \A n \in SetNodes \ {es} : set_types[n] = ic_call.pre[n]
        IN  /\ (IsEmptySet(left) /\ ~IsEmptySet(right))
                  => Amended(left, right)
            /\ (IsEmptySet(right) /\ ~IsEmptySet(left))
                  => Amended(right, left)
            /\ (IsEmptySet(left) /\ IsEmptySet(right)) =>
                  /\ ic_call.err = "cannot determine the type of an empty set"
                  /\ set_types = ic_call.pre

C19_Witness ==
    /\ BinopCalled
    /\ ic_call.args = <<"s_x", "e1">>
    /\ ic_call.pre["e1"] = int_t
    /\ set_types["e1"] = ObjectT("ObjX")

TypeCheckCalled == ExprCalled /\ CalledNode.kind = "TypeCheckOp"

(* C20: the inferred type of a TypeCheckOp node is std::bool for every     *)
(* left and right operand.                                                 *)
C20_TypeCheckOpIsBool ==
    TypeCheckCalled => ic_call.err = "" /\ ic_call.ret = bool_t

C20_Witness ==
    /\ TypeCheckCalled
    /\ CalledNode = TypeCheckOp("e1", "c_str")
    /\ ic_call.pre["e1"] = NoneT
    /\ ic_call.ret = bool_t
    /\ set_types["e1"] = str_t

-----------------------------------------------------------------------------
(* Properties of the common type of scalars and collections                *)

ScalarOrCollectionArgs ==
    /\ ic_call.fn = "common"
    /\ NonEmptyArgTypes # {}
    /\ \/ \A t \in NonEmptyArgTypes : t.k = "scalar"
       \/ \A t \in NonEmptyArgTypes : t.k = "array"

SomePairIncompatible ==
    \E t, u \in NonEmptyArgTypes :
        find_common_implicitly_castable_type(t, u) = NoneT

(* C18 (as stated): for scalar or collection arguments _infer_common_type  *)
(* raises whenever some pair has no common implicitly castable type; it    *)
(* never returns without a type.                                           *)
C18_RaisesWhenSomePairIncompatible ==
    ScalarOrCollectionArgs =>
        /\ SomePairIncompatible => ic_call.err # ""
        /\ ic_call.err = "" => ic_call.ret # NoneT

(* C18 (amended): for scalar or collection arguments _infer_common_type    *)
(* does not raise; when some pair has no common implicitly castable type   *)
(* it returns None and amends nothing, otherwise it returns a type every   *)
(* argument type is implicitly castable to.                                *)
C18_ReturnsNoneWhenSomePairIncompatible ==
    ScalarOrCollectionArgs =>
        /\ ic_call.err = ""
        /\ IF SomePairIncompatible
           THEN ic_call.ret = NoneT /\ set_types = ic_call.pre
           ELSE /\ ic_call.ret # NoneT
                /\ \A t \in NonEmptyArgTypes :
                      find_common_implicitly_castable_type(t, ic_call.ret)
                          = ic_call.ret

C18_Witness ==
    /\ ScalarOrCollectionArgs
    /\ SomePairIncompatible
    /\ \E i \in DOMAIN ic_call.args : IsEmptySet(ic_call.args[i])
    /\ ic_call.err = ""
    /\ ic_call.ret = NoneT

-----------------------------------------------------------------------------
(* Properties of the result of the connection test                         *)

(* The loop ended with a break: an attempt reached the server, which       *)
(* accepted the connection or rejected it with some other PostgresError.   *)
ServerAnswered == wd_result # "" /\ wd_n <= wd_timeout

(* C29: the connection test returns 'running' whenever the server answered *)
(* (a connection, or a PostgresError other than cannot-connect-now and     *)
(* connection errors), and 'not-initialized' only when every attempt       *)
(* failed to reach the server.                                             *)
C29_RunningWheneverServerAnswered ==
    wd_result # "" =>
        /\ ServerAnswered => wd_result = "running"
        /\ wd_result = "not-initialized" => wd_n = wd_timeout + 1

-----------------------------------------------------------------------------
(* Properties of the managed backend cluster                               *)

(* C27: BaseCluster.get_status leaves the backend's run state as it found  *)
(* it, whether it returns or raises: a stopped backend is stopped again,   *)
(* a running one still runs.                                               *)
C27_GetStatusKeepsRunState ==
    cb_last.op = "get_status" => cb_status = cb_last.pre.status

SpawnedBy(prog) ==
    {i \in DOMAIN cb_spawned : i > Len(cb_last.pre.spawned)
                               /\ cb_spawned[i].prog = prog}

CbUnchanged ==
    cb_status = cb_last.pre.status /\ cb_spawned = cb_last.pre.spawned

(* C28: postgres is spawned only on a stopped cluster and initdb only on   *)
(* one that is not initialized: start on a running cluster returns and     *)
(* start on a not-initialized one raises ClusterError, both without        *)
(* spawning; init on an initialized cluster raises ClusterError without    *)
(* running initdb or the bootstrap.                                        *)
C28_SpawnsOnlyFromStopped ==
    /\ \A i \in DOMAIN cb_spawned :
          /\ cb_spawned[i].prog = "postgres" => cb_spawned[i].from = "stopped"
          /\ cb_spawned[i].prog = "initdb"
                => cb_spawned[i].from = "not-initialized"
    /\ (cb_last.op = "pg_start" /\ cb_last.seen = "running")
          => cb_last.err = "" /\ CbUnchanged
    /\ (cb_last.op = "pg_start" /\ cb_last.seen = "not-initialized")
          => cb_last.err = "ClusterError" /\ CbUnchanged
    /\ (cb_last.op = "pg_init"
            /\ cb_last.seen \in {"stopped", "running"})
          => cb_last.err = "ClusterError" /\ CbUnchanged
    /\ (cb_last.op = "init" /\ cb_last.seen \in {"stopped", "running"})
          => /\ cb_last.err = "ClusterError"
             /\ SpawnedBy("initdb") = {}
             /\ SpawnedBy("bootstrap") = {}

C28_Witness ==
    /\ cb_last.op = "pg_start"
    /\ cb_last.seen = "running"
    /\ cb_last.pre.spawned = <<Spawn("postgres", "stopped")>>
    /\ cb_spawned = cb_last.pre.spawned
    /\ cb_last.err = ""

-----------------------------------------------------------------------------
(* Properties of expression boxes                                          *)

Serialized == bx_last.op \in {"pickle", "schema_reduce"} /\ bx_last.err = ""

(* C23: whenever an Expression crosses a serialization boundary, be it     *)
(* pickling or the reduction to schema data, the serialized state holds    *)
(* the text and the refs of the box and neither a parsed tree nor an IR,   *)
(* and the box restored from it has the same text and refs and both lazy   *)
(* fields cleared, whatever they held before.                              *)
C23_SerializedStateDropsLazyFields ==
    Serialized =>
        /\ bx_expr.text = bx_last.pre.text
        /\ bx_expr.refs = bx_last.pre.refs
        /\ bx_expr._qlast = NoneTree
        /\ bx_expr._irast = NoneTree
        /\ bx_last.op = "pickle" =>
              /\ bx_last.state.text = bx_last.pre.text
              /\ bx_last.state.refs = bx_last.pre.refs
              /\ bx_last.state._qlast = NoneTree
              /\ bx_last.state._irast = NoneTree
        /\ bx_last.op = "schema_reduce" =>
              /\ Len(bx_last.state) = 2
              /\ bx_last.state[1] = bx_last.pre.text
              /\ refs_schema_restore(bx_last.state[2]) = bx_last.pre.refs

C23_Witness ==
    /\ bx_last.op = "pickle"
    /\ bx_last.pre._qlast # NoneTree
    /\ bx_last.pre._irast # NoneTree
    /\ bx_last.pre.refs # NoneRefs

-----------------------------------------------------------------------------
(* Properties of the schema version commands                               *)

Concurrent(t, u) ==
    /\ t # u
    /\ gv_txn[t].status # "idle"
    /\ gv_txn[u].status # "idle"
    /\ gv_txn[t].expected = gv_txn[u].expected

Position(ops, op) ==
    IF \E i \in 1 .. Len(ops) : ops[i] = op
    THEN CHOOSE i \in 1 .. Len(ops) : ops[i] = op
    ELSE 0

(* C25: the operations of a delta that alters the schema version begin     *)
(* with the check that reads the stored version FOR UPDATE, a transaction  *)
(* that got past it read the version it was built against, and of two      *)
(* transactions built against the same version at most one commits.        *)
C25_AtMostOneDeltaCommits ==
    gv_mode = "schema" =>
        /\ Position(pgops_of(gv_mode), "check_for_update") = 1
        /\ \A t \in Txns :
              gv_txn[t].status = "committed" => gv_txn[t].wrote
        /\ \A t, u \in Txns :
              Concurrent(t, u) =>
                  ~(gv_txn[t].status = "committed"
                    /\ gv_txn[u].status = "committed")

C25_Witness ==
    /\ gv_mode = "schema"
    /\ \E t, u \in Txns :
          /\ Concurrent(t, u)
          /\ gv_txn[t].status = "committed"
          /\ gv_txn[u].status = "failed"
          /\ gv_txn[u].error = "serialization_failure"

LockFirst(ops) ==
    /\ Len(ops) = 3
    /\ ops[1] \in {"lock_for_update", "poll_lock"}
    /\ ops[2] = "check"
    /\ ops[3] = "update_metadata"

BothWrote(t, u) ==
    /\ gv_txn[t].wrote \/ gv_txn[t].status = "committed"
    /\ gv_txn[u].wrote \/ gv_txn[u].status = "committed"

(* C24 as stated: the lock comes before the check and the check before     *)
(* the write, and of two global-DDL transactions built against the same    *)
(* global version at most one writes its version.                          *)
C24_AtMostOneGlobalWrite ==
    gv_mode # "schema" =>
        /\ LockFirst(pgops_of(gv_mode))
        /\ \A t, u \in Txns : Concurrent(t, u) => ~BothWrote(t, u)

(* C24: the lock comes before the check and the check before the write;    *)
(* with superuser access, where the lock is a row lock, at most one of two *)
(* global-DDL transactions built against the same global version writes    *)
(* its version.  Where the lock is only polled, both can write.            *)
C24_AtMostOneGlobalWriteUnderRowLock ==
    gv_mode # "schema" =>
        /\ LockFirst(pgops_of(gv_mode))
        /\ gv_mode = "global-superuser" =>
              \A t, u \in Txns : Concurrent(t, u) => ~BothWrote(t, u)

C24_Witness ==
    /\ gv_mode = "global-superuser"
    /\ \E t, u \in Txns :
          /\ Concurrent(t, u)
          /\ gv_txn[t].status = "committed"
          /\ gv_txn[t].wrote
          /\ gv_txn[u].status = "failed"

-----------------------------------------------------------------------------
(* Properties of the pointer commands                                      *)

Emitted(kind) == pa_cmd.kind = kind /\ pa_pgops # <<>>

SingleToMulti == Emitted("cardinality") /\ pa_cmd.was = "single"

(* Positions of the emitted operations that satisfy a test.                *)
PgopsWhere(Test(_)) == {i \in DOMAIN pa_pgops : Test(pa_pgops[i])}

IsSourceView(o) == o.op = "CreateView" /\ o.obj = TypeObj(pa_cmd.t)

IsColumnDrop(o) ==
    o.op = "DropColumn" /\ o.obj = TypeObj(pa_cmd.t) /\ o.arg = pa_cmd.p

IsLinkTable(o) == o.op = "CreateTable" /\ o.obj = PtrObj(pa_cmd.t, pa_cmd.p)

IsInsert(o) == o.op = "Query" /\ o.arg = "INSERT"

Before(S, T) == \A i \in S, j \in T : i < j

(* C21 as stated: a single-to-multi change creates the link table, inserts *)
(* the rows, drops the source column and only then rebuilds the view of    *)
(* the source.                                                             *)
C21_ColumnDroppedBeforeViewRebuilt ==
    SingleToMulti =>
        /\ Cardinality(PgopsWhere(IsLinkTable)) = 1
        /\ Cardinality(PgopsWhere(IsInsert)) = 1
        /\ Cardinality(PgopsWhere(IsColumnDrop)) = 1
        /\ PgopsWhere(IsSourceView) # {}
        /\ Before(PgopsWhere(IsLinkTable), PgopsWhere(IsInsert))
        /\ Before(PgopsWhere(IsInsert), PgopsWhere(IsColumnDrop))
        /\ Before(PgopsWhere(IsColumnDrop), PgopsWhere(IsSourceView))

(* C21: a single-to-multi change creates the link table, inserts the rows, *)
(* drops and creates again the view of the source, now without the         *)
(* column, and drops the source column as its last operation.              *)
C21_ViewRebuiltBeforeColumnDropped ==
    SingleToMulti =>
        /\ Cardinality(PgopsWhere(IsLinkTable)) = 1
        /\ Cardinality(PgopsWhere(IsInsert)) = 1
        /\ Cardinality(PgopsWhere(IsColumnDrop)) = 1
        /\ Cardinality(PgopsWhere(IsSourceView)) = 1
        /\ Before(PgopsWhere(IsLinkTable), PgopsWhere(IsInsert))
        /\ Before(PgopsWhere(IsInsert), PgopsWhere(IsSourceView))
        /\ Before(PgopsWhere(IsSourceView), PgopsWhere(IsColumnDrop))
        /\ \A i \in PgopsWhere(IsSourceView) :
              /\ pa_pgops[i].arg = ""
              /\ pa_cmd.p \notin pa_pgops[i].cols
              /\ pa_pgops[i - 1].op = "DropView"
              /\ pa_pgops[i - 1].obj = TypeObj(pa_cmd.t)
        /\ Len(pa_pgops) \in PgopsWhere(IsColumnDrop)

C21_Witness ==
    /\ SingleToMulti
    /\ pa_pc = Len(pa_pgops)
    /\ get_ancestors(pa_cmd.t) # <<>>

(* C26: whenever the backend runs a DropColumn or an AlterColumnType of a  *)
(* command that deletes a pointer, changes its type or changes its         *)
(* cardinality, no inheritance view that exists at that point projects the *)
(* column.                                                                 *)
C26_NoViewProjectsAChangedColumn ==
    \A i \in DOMAIN pa_log : pa_log[i] = {}

C26_Witness ==
    /\ Emitted("type")
    /\ pa_cmd.was = "single"
    /\ pa_pc = Len(pa_pgops)
    /\ Descendants(pa_cmd.t) # {}
    /\ \E i \in DOMAIN pa_pgops : pa_pgops[i].op = "AlterColumnType"


IsOp(o, op, arg) == o.op = op /\ o.arg = arg

DropsConstraint(o) == o.op = "DropConstraint"
CreatesConstraint(o) == o.op = "CreateConstraint"
DropsView(o) == o.op = "DropView"
AddsTemp(o) == IsOp(o, "AddColumn", "temp")
Materializes(o) == IsOp(o, "Query", "UPDATE using")
DeletesNulls(o) ==
    o.op = "Query" /\ o.arg \in {"DELETE nulls", "DELETE nulls or raise"}
AltersType(o) == o.op = "AlterColumnType"
DropsTemp(o) == IsOp(o, "DropColumn", "temp")
CreatesView(o) == IsOp(o, "CreateView", "")

TypeChanged == Emitted("type")

ChangedIsMulti == pa_cmd.was = "multi"

(* C22 as stated: constraints dropped; values materialized in a temporary  *)
(* column when the USING expression is non-trivial or the pointer is       *)
(* multi; the column type altered; then, for a multi pointer, the rows     *)
(* with a NULL value deleted; constraints recreated; the inheritance view  *)
(* recreated last.                                                         *)
C22_TypeAlteredBeforeNullsDeleted ==
    TypeChanged =>
        /\ Before(PgopsWhere(DropsConstraint), PgopsWhere(AddsTemp))
        /\ PgopsWhere(AddsTemp) # {}
        /\ Before(PgopsWhere(AddsTemp), PgopsWhere(AltersType))
        /\ PgopsWhere(AltersType) # {}
        /\ ChangedIsMulti => PgopsWhere(DeletesNulls) # {}
        /\ Before(PgopsWhere(AltersType), PgopsWhere(DeletesNulls))
        /\ Before(PgopsWhere(DeletesNulls), PgopsWhere(CreatesConstraint))
        /\ Before(PgopsWhere(CreatesConstraint), PgopsWhere(CreatesView))
        /\ PgopsWhere(CreatesView) # {}

(* C22: a type change that has work to do drops the constraints first;     *)
(* for a property it then drops the view of the source; it always          *)
(* materializes the converted values with an UPDATE, into a temporary      *)
(* column when the pointer is a property or is multi with a conversion     *)
(* that can return no value; for a multi pointer it then deletes the rows  *)
(* with a NULL value, with the raising form when the pointer is required;  *)
(* only then comes, for a property, the change of the column type and,     *)
(* last in the same ALTER TABLE, the drop of the temporary column; then    *)
(* the constraints are recreated and, for a property, the view is created  *)
(* again.                                                                  *)
C22_NullsDeletedBeforeTypeAltered ==
    TypeChanged =>
        /\ Before(PgopsWhere(DropsConstraint), PgopsWhere(DropsView))
        /\ Before(PgopsWhere(DropsConstraint), PgopsWhere(Materializes))
        /\ Before(PgopsWhere(DropsView), PgopsWhere(Materializes))
        /\ Before(PgopsWhere(AddsTemp), PgopsWhere(Materializes))
        /\ Cardinality(PgopsWhere(Materializes)) = 1
        /\ Before(PgopsWhere(Materializes), PgopsWhere(DeletesNulls))
        /\ Before(PgopsWhere(DeletesNulls), PgopsWhere(AltersType))
        /\ Before(PgopsWhere(DeletesNulls), PgopsWhere(DropsTemp))
        /\ Before(PgopsWhere(AltersType), PgopsWhere(DropsTemp))
        /\ Before(PgopsWhere(AltersType), PgopsWhere(CreatesConstraint))
        /\ Before(PgopsWhere(DropsTemp), PgopsWhere(CreatesConstraint))
        /\ Before(PgopsWhere(CreatesConstraint), PgopsWhere(CreatesView))
        /\ Before(PgopsWhere(AltersType), PgopsWhere(CreatesView))
        /\ (PgopsWhere(AddsTemp) # {}) =
              (~is_link(pa_cmd.p)
                  \/ (ChangedIsMulti /\ pa_cmd.inputs.nullable))
        /\ (PgopsWhere(DropsTemp) # {}) = (PgopsWhere(AddsTemp) # {})
        /\ (PgopsWhere(DeletesNulls) # {}) = ChangedIsMulti
        /\ \A i \in PgopsWhere(DeletesNulls) :
              (pa_pgops[i].arg = "DELETE nulls or raise")
                  = pa_cmd.inputs.required
        /\ (PgopsWhere(AltersType) # {}) = ~is_link(pa_cmd.p)
        /\ (PgopsWhere(DropsView) # {}) = ~is_link(pa_cmd.p)
        /\ (PgopsWhere(CreatesView) # {}) = ~is_link(pa_cmd.p)
        /\ (PgopsWhere(DropsConstraint) # {}) = pa_cmd.inputs.constraints
        /\ (PgopsWhere(CreatesConstraint) # {}) = pa_cmd.inputs.constraints

C22_Witness ==
    /\ TypeChanged
    /\ ChangedIsMulti
    /\ ~is_link(pa_cmd.p)
    /\ pa_cmd.inputs.required
    /\ pa_cmd.inputs.constraints
    /\ pa_pc = Len(pa_pgops)

=============================================================================
